---------------------------- MODULE Spec2Model ----------------------------
(***************************************************************************)
(* A model of the orchestration core of doui (a Bubble Tea terminal UI for *)
(* Docker): the Subscription Bridge for log and stats streams, the Batch   *)
(* Executor of group operations over the Group Store, the Recreate         *)
(* Workflow and the Input Router with the modal and the drill-down views.  *)
(* Each part has its own specification over the shared state:              *)
(*   SpecStream    the Reducer (App.Update) with log / stats streaming     *)
(*   SpecBatch     GroupManager.ExecuteGroupOperation and store mutations  *)
(*   SpecRecreate  Client.RecreateContainer and its Command                *)
(*   SpecInput     the Input Router: modal, filter, global keys, views     *)
(* Goroutines are modelled as interleaved atomic steps; a Command is a     *)
(* goroutine started by the Bubble Tea runtime whose result, unless nil,   *)
(* is delivered to App.Update as one message, in no particular order with  *)
(* respect to the results of other Commands.                               *)
(***************************************************************************)
EXTENDS Integers, Sequences, FiniteSets, Bags, TLC

(***************************************************************************)
(* Bounds of the model.                                                    *)
(***************************************************************************)
\* Number of log / stats streams the user opens in one run.
MaxStreams == 2
\* Number of records the producer of the first stream reads from the
\* daemon before it ends, and the number a later stream's producer reads.
MaxRecords == 3
MaxLaterRecords == 1
\* Producers that fail (at opening or while reading) in one run.
MaxFailures == 1
\* Store mutations made in one run of the batch part.
MaxStoreOps == 1
\* Concurrent mutation calls of the Group Store.
MaxCalls == 3
\* SaveConfig calls in one run of the file part.
MaxSaves == 3
\* Recreate workflows in one run.
MaxRecreates == 1
\* Group operations (ExecuteGroupOperation calls) in one run.
MaxBatches == 1
\* Members of a group in the configuration the program starts with.
MaxInitMembers == 2
\* Capacity of a stream's data channel.  The source makes it 100 for logs
\* (images.go:321) and 10 for stats (networks.go:146); the model scales it
\* down so that a producer can fill it within MaxRecords records.
ChanCap == 1

(***************************************************************************)
(* Program constants.                                                      *)
(***************************************************************************)
\* LogsView.maxLines
MaxLines == 1000
\* StatsView.maxHistory
MaxHistory == 60

ViewContainers == "Containers"
ViewLogs == "Logs"
ViewStats == "Stats"
ViewGroups == "Groups"
ViewEnvVars == "EnvVars"
ViewImages == "Images"
ViewVolumes == "Volumes"
ViewCompose == "Compose"
ViewNetworks == "Networks"
ViewAbout == "About"

Streams == 1..MaxStreams
Containers == {"c1", "c2"}
NoChan == 0

VARIABLES
    \* ---- App (the Reducer's state) ----
    currentView,    \* a.state.CurrentView
    errorMessage,   \* a.errorMessage as the sequence of its parts (<<>>: none)
    statusMessage,  \* a.statusMessage
    clearTimers,    \* number of clearStatus ticks scheduled and not yet fired
    running,        \* FALSE once tea.Quit was returned (the process exits)
    logsView,       \* LogsView: containerID, lines, logsChan, errorChan,
                    \* ready, and the stores of StartStreaming calls the
                    \* event loop does not see yet
    statsView,      \* StatsView: containerID, history, statsChan, errorChan,
                    \* ready, and such stores
    \* ---- Subscriptions: stream s is the s-th StreamLogs/StreamStats call ----
    nextStream,     \* number of streams opened so far
    kind,           \* kind[s]: "none", "logs" or "stats"
    cmdStart,       \* cmdStart[s]: the start Command was issued and has not run
    pc,             \* pc[s]: position of the producer goroutine
    dataChan,       \* dataChan[s]: buffered records of the data channel
    errChan,        \* errChan[s]: "empty", an error text, or "taken"
    emitted,        \* emitted[s]: records the producer has sent so far
    appWait,        \* appWait[s]: app.waitFor* select outstanding (0 or 1)
    viewWait,       \* viewWait[<<d, e>>]: views.waitFor* selects outstanding
                    \* on the data channel of d and the error channel of e
    inflight        \* results of Commands on their way to App.Update

appVars == <<currentView, errorMessage, statusMessage, clearTimers, running,
             logsView, statsView>>
streamVars == <<nextStream, kind, cmdStart, pc, dataChan, errChan, emitted,
                appWait, viewWait, inflight>>

VARIABLES
    \* ---- Group Store (GroupManager) ----
    groups,         \* backing array of m.config.Groups (one Group per slot)
    glen,           \* len(m.config.Groups): slots 1..glen are the groups
    disk,           \* the groups last written to config.json
    storeErr,       \* what the last store mutation returned
    storeOps,       \* store mutations made so far
    mu,             \* m.mu: 0 when free, else the call that holds it
    sc,             \* the mutation calls running on Command goroutines:
                    \* operation, arguments, position, locals, result
    \* ---- Batch Executor (one ExecuteGroupOperation call at a time) ----
    ex,             \* the call: position and local variables
    workers,        \* the goroutines it launched: id, position, result
    results,        \* the buffered channel "results"
    calls,          \* calls[id]: invocations of operation(ctx, id) in this call
    batchMsg        \* the GroupStartedMsg on its way to App.Update

storeVars == <<groups, glen, disk, storeErr, storeOps, mu, sc>>
batchVars == <<ex, workers, results, calls, batchMsg>>


VARIABLES
    \* ---- Environment editing and the Recreate Workflow ----
    pendingEnv,     \* a.pendingEnvContainer with a.state.SelectedContainer
    envModified,    \* a.envVarsView.IsModified()
    rec,            \* the RecreateContainer call: position and locals
    steps,          \* the Docker API calls the workflow has made, in order
    recMsg          \* the ContainerRecreatedMsg on its way to App.Update

recVars == <<pendingEnv, envModified, rec, steps, recMsg>>

VARIABLES
    \* ---- The Input Router, the modal and the drill-down views ----
    previousView,       \* a.state.PreviousView
    modal,              \* a.modal: NoModal or the visible modal
    pendingDelete,      \* a.pendingDelete
    pendingDeleteType,  \* a.pendingDeleteType
    filtering,          \* views whose active list is in list.Filtering
    editor,             \* the EnvEditor of a.envVarsView
    lists,              \* containers, images and volumes as last loaded
    groupsView,         \* GroupsView: groups, selectedGroup, currentTab
    networksView,       \* NetworksView: networks, selectedNetwork, currentTab
    composeView,        \* ComposeView: projects, selections, drill-down level
    cfgLoads,           \* loadContainerConfig Commands that have not returned,
                        \* per container
    routed,             \* the last key event: its number, its consumer and
                        \* the Commands App.Update returned
    refreshes           \* *LoadedMsg events reduced so far

inputRest == <<modal, pendingDelete, pendingDeleteType, filtering, editor,
               lists, groupsView, networksView, composeView, cfgLoads,
               routed, refreshes>>
inputVars == <<previousView, inputRest>>

VARIABLES
    \* ---- The Event Loop: clients, Commands in flight, the refresh tick ----
    docker,         \* a.docker (with a.ready): "nil" or "ready"
    groupManager,   \* a.groupManager: "nil" or "ready"
    cmds,           \* the Commands the runtime has started and that have
                    \* not returned, as a bag: each holds the clients it
                    \* was built with, and a Command returned twice runs twice
    issued,         \* refresh ticks reduced and "s" / "x" / "r" presses so
                    \* far, and whether one of these found a Command for
                    \* the same container in flight, and whether a tick
                    \* was reduced while the current view was filtering
    ticks,          \* tickRefresh timers running
    crashed         \* a goroutine of the process panicked

loopVars == <<docker, groupManager, cmds, issued, ticks, crashed>>

VARIABLES
    \* ---- The configuration file (LoadConfig / SaveConfig) ----
    fs,             \* the files at configPath, configPath.tmp, configPath.bak
    sv,             \* the SaveConfig call: position, data, what the file
                    \* held when it began, saves begun so far
    loaded          \* what LoadConfig returned after the process stopped
fileVars == <<fs, sv, loaded>>

VARIABLES
    \* ---- A list view: its backing slice and its list.Model ----
    lm              \* kind of view, backing slice, filter state, filter text,
                    \* filtered items, cursor, the resource the last action
                    \* key was applied to
listVars == <<lm>>

\* What the steps of one part leave alone, besides the App's fields.
NotStream ==
    <<storeVars, batchVars, recVars, inputVars, loopVars, fileVars, listVars>>
\* The same for a key of the stream part that sets a.state.PreviousView.
NotStreamKey ==
    <<storeVars, batchVars, recVars, inputRest, loopVars, fileVars, listVars>>
NotBatch == <<streamVars, recVars, inputVars, loopVars, fileVars, listVars>>
NotRecreate ==
    <<streamVars, storeVars, batchVars, inputVars, loopVars, fileVars,
      listVars>>
NotInput ==
    <<streamVars, storeVars, batchVars, rec, steps, recMsg, loopVars, fileVars,
      listVars>>
NotLoop ==
    <<streamVars, storeVars, batchVars, rec, steps, recMsg, fileVars, listVars>>

vars == <<appVars, streamVars, storeVars, batchVars, recVars, inputVars,
          loopVars, fileVars, listVars>>

(***************************************************************************)
(* Helpers over channels.                                                  *)
(***************************************************************************)
\* The deferred closes run in LIFO order: close(errorChan), then
\* close(logsChan) / close(statsChan).
ErrClosed(s) == pc[s] \in {"closeData", "done"}
DataClosed(s) == pc[s] = "done"
HasErr(s) == errChan[s] \notin {"empty", "taken"}
ViewOf(k) == IF k = "logs" THEN ViewLogs ELSE ViewStats

\* Error texts of the two producers.
OpenErr(k) == IF k = "logs" THEN "failed to get container logs"
              ELSE "failed to get container stats"
ReadErr(k) == IF k = "logs" THEN "error reading logs"
              ELSE "error decoding stats"

(***************************************************************************)
(* Views.                                                                  *)
(***************************************************************************)
\* loaded: the data channel Update has read for the re-arm it is about to
\* return, while it has not read the error channel yet (NoLoad otherwise).
NoLoad == <<>>
NewLogsView == [containerID |-> "", lines |-> <<>>, logsChan |-> NoChan,
                errorChan |-> NoChan, ready |-> FALSE, stores |-> {},
                loaded |-> NoLoad]
NewStatsView == [containerID |-> "", stats |-> 0, history |-> <<>>,
                 statsChan |-> NoChan, errorChan |-> NoChan, ready |-> FALSE,
                 stores |-> {}, loaded |-> NoLoad]
\* App.Update is inside a view's Update, between the two loads of the
\* re-arm: the event loop reduces nothing else until it returns.
Updating == logsView.loaded # NoLoad \/ statsView.loaded # NoLoad

\* The last n elements of a sequence (v.lines[len(v.lines)-v.maxLines:]).
LastN(q, n) == IF Len(q) > n THEN SubSeq(q, Len(q) - n + 1, Len(q)) ELSE q

LogsSetContainer(v, c) == [v EXCEPT !.containerID = c, !.lines = <<>>,
                                    !.ready = FALSE]
StatsSetContainer(v, c) == [v EXCEPT !.containerID = c, !.stats = 0,
                                     !.history = <<>>]
\* StartStreaming(chan, errorChan) for stream s is three plain stores made
\* on a Command goroutine, with no lock, into a view the event loop reads
\* and other start Commands write: the first store is made here, the other
\* two are steps of their own (stores: those still to be made).
StoreFields == {"errorChan", "ready"}
LogsStartStreaming(v, s) ==
    [v EXCEPT !.logsChan = s,
              !.stores = @ \cup {<<"errorChan", s>>, <<"ready", s>>}]
StatsStartStreaming(v, s) ==
    [v EXCEPT !.statsChan = s,
              !.stores = @ \cup {<<"errorChan", s>>, <<"ready", s>>}]
\* v.errorChan = errorChan, then v.ready = true.
LogsStore(v, st) ==
    [v EXCEPT !.stores = @ \ {st},
              !.errorChan = IF st[1] = "errorChan" THEN st[2] ELSE @,
              !.ready = IF st[1] = "ready" THEN TRUE ELSE @]
StatsStore(v, st) ==
    [v EXCEPT !.stores = @ \ {st},
              !.errorChan = IF st[1] = "errorChan" THEN st[2] ELSE @,
              !.ready = IF st[1] = "ready" THEN TRUE ELSE @]

\* LogsView.Update on a docker.LogEntry: append the line, keep the last
\* maxLines, then evaluate the arguments of waitForLogEntry(v.logsChan,
\* v.errorChan) from left to right: v.logsChan is loaded here, v.errorChan
\* in a later step (ReduceRearm), where LogsRearm returns the Command.
LogsViewUpdate(v, line) ==
    [v EXCEPT !.lines = LastN(Append(v.lines, line), MaxLines),
              !.loaded = <<v.logsChan>>]
\* StatsView.Update on a *ContainerStats: keep it as the current sample,
\* append to history, drop the oldest beyond maxHistory.
StatsViewUpdate(v, st) ==
    [v EXCEPT !.stats = st,
              !.history = IF Len(v.history) + 1 > MaxHistory
                          THEN Tail(Append(v.history, st))
                          ELSE Append(v.history, st),
              !.loaded = <<v.statsChan>>]

\* The Commands LogsView.Update / StatsView.Update return for a stream
\* record: one waitForLogEntry(v.logsChan, v.errorChan), i.e. one more
\* select outstanding on the data channel Update loaded first and the
\* error channel the view holds when the second load is made.  The two
\* loads are not synchronised with the stores of StartStreaming.
\* A select on two nil channels never returns and is not counted.
ChanPairs == (0..MaxStreams) \X (0..MaxStreams)
LogsRearmDropped(w, v) == w
LogsRearm(w, v) ==
    IF v.loaded[1] = NoChan /\ v.errorChan = NoChan THEN w
    ELSE [w EXCEPT ![<<v.loaded[1], v.errorChan>>] = @ + 1]
StatsRearm(w, v) ==
    IF v.loaded[1] = NoChan /\ v.errorChan = NoChan THEN w
    ELSE [w EXCEPT ![<<v.loaded[1], v.errorChan>>] = @ + 1]
\* The selects of the views outstanding on the data channel, and on the
\* error channel, of stream s.
ViewWaitData(s) ==
    LET RECURSIVE Sum(_)
        Sum(e) == IF e < 0 THEN 0 ELSE viewWait[<<s, e>>] + Sum(e - 1)
    IN Sum(MaxStreams)
ViewWaitErr(s) ==
    LET RECURSIVE SumErr(_)
        SumErr(d) == IF d < 0 THEN 0 ELSE viewWait[<<d, s>>] + SumErr(d - 1)
    IN SumErr(MaxStreams)

(***************************************************************************)
(* Initial state of the streaming part: the application is running, the    *)
(* Docker client is ready and the containers list is loaded, the           *)
(* containers view is current, no stream has been opened.                  *)
(***************************************************************************)
AppInit ==
    /\ currentView = ViewContainers
    /\ errorMessage = <<>>
    /\ statusMessage = ""
    /\ clearTimers = 0
    /\ running = TRUE
    /\ logsView = NewLogsView
    /\ statsView = NewStatsView

StreamInit ==
    /\ nextStream = 0
    /\ kind = [s \in Streams |-> "none"]
    /\ cmdStart = [s \in Streams |-> FALSE]
    /\ pc = [s \in Streams |-> "none"]
    /\ dataChan = [s \in Streams |-> <<>>]
    /\ errChan = [s \in Streams |-> "empty"]
    /\ emitted = [s \in Streams |-> 0]
    /\ appWait = [s \in Streams |-> 0]
    /\ viewWait = [p \in ChanPairs |-> 0]
    /\ inflight = {}

(***************************************************************************)
(* Key presses (App.Update, case tea.KeyMsg).  No modal is open and no     *)
(* list is filtering in this part.                                         *)
(***************************************************************************)
\* The row of the containers view the cursor is on when the n-th stream is
\* opened: the user opens the first container, then the other one.
Selected(n) == IF n = 1 THEN "c1" ELSE "c2"

\* "l" in the containers view with container c selected: switch to the logs
\* view, reset it (SetContainer runs inside Update) and return the start
\* Command.
KeyLogs(c) ==
    /\ running
    /\ ~Updating
    /\ currentView = ViewContainers
    /\ nextStream < MaxStreams
    /\ c = Selected(nextStream + 1)
    /\ LET s == nextStream + 1 IN
        /\ nextStream' = s
        /\ kind' = [kind EXCEPT ![s] = "logs"]
        /\ cmdStart' = [cmdStart EXCEPT ![s] = TRUE]
    /\ previousView' = currentView
    /\ currentView' = ViewLogs
    /\ logsView' = LogsSetContainer(logsView, c)
    /\ UNCHANGED <<errorMessage, statusMessage, clearTimers, running, statsView>>
    /\ UNCHANGED <<pc, dataChan, errChan, emitted, appWait, viewWait, inflight>>
    /\ UNCHANGED NotStreamKey

\* "t" in the containers view: the same for the stats view.
KeyStats(c) ==
    /\ running
    /\ ~Updating
    /\ currentView = ViewContainers
    /\ nextStream < MaxStreams
    /\ c = Selected(nextStream + 1)
    /\ LET s == nextStream + 1 IN
        /\ nextStream' = s
        /\ kind' = [kind EXCEPT ![s] = "stats"]
        /\ cmdStart' = [cmdStart EXCEPT ![s] = TRUE]
    /\ previousView' = currentView
    /\ currentView' = ViewStats
    /\ statsView' = StatsSetContainer(statsView, c)
    /\ UNCHANGED <<errorMessage, statusMessage, clearTimers, running, logsView>>
    /\ UNCHANGED <<pc, dataChan, errChan, emitted, appWait, viewWait, inflight>>
    /\ UNCHANGED NotStreamKey

\* "q" / "ctrl+c" in the logs, stats or About view: back to the containers
\* view.
\* Nothing is cancelled or closed.
KeyQuitBack ==
    /\ running
    /\ ~Updating
    /\ currentView \in {ViewLogs, ViewStats, ViewAbout}
    /\ currentView' = ViewContainers
    /\ UNCHANGED <<errorMessage, statusMessage, clearTimers, running, logsView,
                   statsView>>
    /\ UNCHANGED streamVars
    /\ UNCHANGED NotStream

\* "q" / "ctrl+c" elsewhere: a.docker.Close() and tea.Quit.  The event loop
\* ends, main returns and the process exits; every goroutine, channel and
\* pending message ends with it.
KeyQuit ==
    /\ running
    /\ ~Updating
    /\ currentView \notin {ViewLogs, ViewStats, ViewAbout}
    /\ running' = FALSE
    /\ currentView' = ViewContainers
    /\ errorMessage' = <<>> /\ statusMessage' = "" /\ clearTimers' = 0
    /\ logsView' = NewLogsView /\ statsView' = NewStatsView
    /\ nextStream' = 0
    /\ kind' = [s \in Streams |-> "none"]
    /\ cmdStart' = [s \in Streams |-> FALSE]
    /\ pc' = [s \in Streams |-> "none"]
    /\ dataChan' = [s \in Streams |-> <<>>]
    /\ errChan' = [s \in Streams |-> "empty"]
    /\ emitted' = [s \in Streams |-> 0]
    /\ appWait' = [s \in Streams |-> 0]
    /\ viewWait' = [p \in ChanPairs |-> 0]
    /\ inflight' = {}
    /\ previousView' = ViewContainers
    /\ UNCHANGED NotStreamKey

\* "esc" in a view other than the containers view, or "1" in any view:
\* the view that was current becomes the previous view and the containers
\* view becomes current.
KeyBack ==
    /\ running
    /\ ~Updating
    /\ previousView' = currentView
    /\ currentView' = ViewContainers
    /\ UNCHANGED <<errorMessage, statusMessage, clearTimers, running, logsView,
                   statsView>>
    /\ UNCHANGED streamVars
    /\ UNCHANGED NotStreamKey

(***************************************************************************)
(* The start Command (the closure startLogStreaming / startStatsStreaming  *)
(* returns), run on a Command goroutine: open the stream (channels made,   *)
(* producer goroutine started), store the channels in the view, then wait  *)
(* for the first record with the app package's waitFor*.  The stores race  *)
(* with the event loop's reads of the view and with the stores of another  *)
(* start Command: StartCmdRun goes up to the first store, StartStore makes *)
(* the second and the third, the third together with the first wait.       *)
(***************************************************************************)
StartCmdRun(s) ==
    /\ running
    /\ cmdStart[s]
    /\ cmdStart' = [cmdStart EXCEPT ![s] = FALSE]
    /\ pc' = [pc EXCEPT ![s] = "open"]
    /\ IF kind[s] = "logs"
       THEN logsView' = LogsStartStreaming(logsView, s) /\ statsView' = statsView
       ELSE statsView' = StatsStartStreaming(statsView, s) /\ logsView' = logsView
    /\ UNCHANGED <<currentView, errorMessage, statusMessage, clearTimers, running>>
    /\ UNCHANGED <<nextStream, kind, dataChan, errChan, emitted, appWait,
                   viewWait, inflight>>
    /\ UNCHANGED NotStream

\* The next store of the StartStreaming call for stream s; after the last
\* one the Command goes on to waitFor*(chan, errorChan)().
StartStore(s, f) ==
    /\ running
    /\ f = "ready" => <<"errorChan", s>> \notin logsView.stores \cup statsView.stores
    /\ IF kind[s] = "logs"
       THEN /\ <<f, s>> \in logsView.stores
            /\ logsView' = LogsStore(logsView, <<f, s>>)
            /\ statsView' = statsView
       ELSE /\ <<f, s>> \in statsView.stores
            /\ statsView' = StatsStore(statsView, <<f, s>>)
            /\ logsView' = logsView
    /\ appWait' = IF f = "ready" THEN [appWait EXCEPT ![s] = 1] ELSE appWait
    /\ UNCHANGED <<currentView, errorMessage, statusMessage, clearTimers, running>>
    /\ UNCHANGED <<nextStream, kind, cmdStart, pc, dataChan, errChan, emitted,
                   viewWait, inflight>>
    /\ UNCHANGED NotStream

(***************************************************************************)
(* The producer goroutine of StreamLogs / StreamStats.  Its context is     *)
(* context.Background(): ctx.Done() is never ready, so a send on a full    *)
(* data channel waits for a receiver.                                      *)
(***************************************************************************)
\* The producers that have failed so far: each wrote its error to its
\* error channel.
Failures == Cardinality({t \in Streams : errChan[t] # "empty"})

\* c.cli.ContainerLogs / ContainerStats returns: ok, or an error that is
\* written to the error channel before the deferred closes.
ProducerOpen(s, ok) ==
    /\ running
    /\ pc[s] = "open"
    /\ IF ok
       THEN pc' = [pc EXCEPT ![s] = "scan"] /\ errChan' = errChan
       ELSE /\ Failures < MaxFailures
            /\ pc' = [pc EXCEPT ![s] = "closeErr"]
            /\ errChan' = [errChan EXCEPT ![s] = OpenErr(kind[s])]
    /\ UNCHANGED appVars
    /\ UNCHANGED <<nextStream, kind, cmdStart, dataChan, emitted, appWait,
                   viewWait, inflight>>
    /\ UNCHANGED NotStream

\* scanner.Scan() / decoder.Decode() returns one more record.
ProducerRead(s) ==
    /\ running
    /\ pc[s] = "scan"
    /\ emitted[s] < (IF s = 1 THEN MaxRecords ELSE MaxLaterRecords)
    /\ pc' = [pc EXCEPT ![s] = "send"]
    /\ UNCHANGED appVars
    /\ UNCHANGED <<nextStream, kind, cmdStart, dataChan, errChan, emitted,
                   appWait, viewWait, inflight>>
    /\ UNCHANGED NotStream

\* select { case logsChan <- entry: ; case <-ctx.Done(): return }: the send
\* proceeds when the channel has room; the other case is never ready.
ProducerSend(s) ==
    /\ running
    /\ pc[s] = "send"
    /\ Len(dataChan[s]) < ChanCap
    /\ pc' = [pc EXCEPT ![s] = "scan"]
    /\ emitted' = [emitted EXCEPT ![s] = emitted[s] + 1]
    /\ dataChan' = [dataChan EXCEPT ![s] = Append(dataChan[s], emitted[s] + 1)]
    /\ UNCHANGED appVars
    /\ UNCHANGED <<nextStream, kind, cmdStart, errChan, appWait, viewWait,
                   inflight>>
    /\ UNCHANGED NotStream

\* The log reader reaches end of input without an error (scanner.Err() is
\* nil): the producer returns, nothing is written to the error channel.
\* The stats producer has no such exit: every Decode failure, end of input
\* included, is written to the error channel (ctx.Err() is always nil).
ProducerEOF(s) ==
    /\ running
    /\ pc[s] = "scan"
    /\ kind[s] = "logs"
    /\ pc' = [pc EXCEPT ![s] = "closeErr"]
    /\ UNCHANGED appVars
    /\ UNCHANGED <<nextStream, kind, cmdStart, dataChan, errChan, emitted,
                   appWait, viewWait, inflight>>
    /\ UNCHANGED NotStream

\* Reading fails: the error is written to the error channel (capacity 1,
\* written at most once), then the producer returns.
ProducerFail(s) ==
    /\ running
    /\ pc[s] = "scan"
    /\ Failures < MaxFailures
    /\ pc' = [pc EXCEPT ![s] = "closeErr"]
    /\ errChan' = [errChan EXCEPT ![s] = ReadErr(kind[s])]
    /\ UNCHANGED appVars
    /\ UNCHANGED <<nextStream, kind, cmdStart, dataChan, emitted, appWait,
                   viewWait, inflight>>
    /\ UNCHANGED NotStream

\* defer close(errorChan), then defer close(logsChan).
ProducerClose(s) ==
    /\ running
    /\ pc[s] \in {"closeErr", "closeData"}
    /\ pc' = [pc EXCEPT ![s] = IF pc[s] = "closeErr" THEN "closeData" ELSE "done"]
    /\ UNCHANGED appVars
    /\ UNCHANGED <<nextStream, kind, cmdStart, dataChan, errChan, emitted,
                   appWait, viewWait, inflight>>
    /\ UNCHANGED NotStream

(***************************************************************************)
(* A next Command: the select of waitForLogEntry / waitForStats, run on a  *)
(* Command goroutine.  who = "app" is the app package's function (the      *)
(* first wait, made by the start Command), who = "view" the views          *)
(* package's (every re-arm).  Go picks any ready case; each action below   *)
(* is one case being taken.  A nil result is dropped by the runtime.       *)
(***************************************************************************)
\* A select is <<who, d, e>>: it receives from the data channel of stream d
\* and the error channel of stream e (the app package's from those of the
\* stream it opened, a view's from the two channels the view held).
Waiters == {<<"app", s, s>> : s \in Streams}
               \cup {<<"view", p[1], p[2]>> : p \in ChanPairs}
Outstanding(who) ==
    IF who[1] = "app" THEN appWait[who[2]] > 0
    ELSE viewWait[<<who[2], who[3]>>] > 0
WaitingData(s, who) == who[2] = s /\ Outstanding(who)
WaitingErr(s, who) == who[3] = s /\ Outstanding(who)

\* The Command returns: one select less outstanding.
WaitDone(s, who) ==
    IF who[1] = "app"
    THEN appWait' = [appWait EXCEPT ![who[2]] = 0] /\ viewWait' = viewWait
    ELSE /\ viewWait' = [viewWait EXCEPT ![<<who[2], who[3]>>] = @ - 1]
         /\ appWait' = appWait

RecordType(k) == IF k = "logs" THEN "LogEntry" ELSE "ContainerStats"
\* app.waitFor* wraps the error in an ErrorMsg; views.waitFor* returns the
\* bare error value.
ErrorType(who) == IF who[1] = "app" THEN "ErrorMsg" ELSE "error"

\* case entry, ok := <-logsChan with a buffered record: return it.
WaitData(s, who) ==
    /\ running
    /\ WaitingData(s, who)
    /\ dataChan[s] # <<>>
    /\ dataChan' = [dataChan EXCEPT ![s] = Tail(dataChan[s])]
    /\ inflight' = inflight \cup {[stream |-> s, type |-> RecordType(kind[s]),
                                    idx |-> Head(dataChan[s]), text |-> ""]}
    /\ WaitDone(s, who)
    /\ UNCHANGED appVars
    /\ UNCHANGED <<nextStream, kind, cmdStart, pc, errChan, emitted>>
    /\ UNCHANGED NotStream

\* case entry, ok := <-logsChan on the closed, drained channel: return nil.
WaitDataClosed(s, who) ==
    /\ running
    /\ WaitingData(s, who)
    /\ DataClosed(s)
    /\ dataChan[s] = <<>>
    /\ WaitDone(s, who)
    /\ UNCHANGED appVars
    /\ UNCHANGED <<nextStream, kind, cmdStart, pc, dataChan, errChan, emitted,
                   inflight>>
    /\ UNCHANGED NotStream

\* case err, ok := <-errorChan with the buffered error: return it.
WaitErr(s, who) ==
    /\ running
    /\ WaitingErr(s, who)
    /\ HasErr(s)
    /\ errChan' = [errChan EXCEPT ![s] = "taken"]
    /\ inflight' = inflight \cup {[stream |-> s, type |-> ErrorType(who),
                                    idx |-> 0, text |-> errChan[s]]}
    /\ WaitDone(s, who)
    /\ UNCHANGED appVars
    /\ UNCHANGED <<nextStream, kind, cmdStart, pc, dataChan, emitted>>
    /\ UNCHANGED NotStream

\* case err, ok := <-errorChan on the closed, empty channel: return nil.
WaitErrClosed(s, who) ==
    /\ running
    /\ WaitingErr(s, who)
    /\ ErrClosed(s)
    /\ ~HasErr(s)
    /\ WaitDone(s, who)
    /\ UNCHANGED appVars
    /\ UNCHANGED <<nextStream, kind, cmdStart, pc, dataChan, errChan, emitted,
                   inflight>>
    /\ UNCHANGED NotStream

(***************************************************************************)
(* App.Update on the result of a stream Command.  ErrorMsg has its own     *)
(* case; docker.LogEntry, *models.ContainerStats and a bare error have     *)
(* none and fall through to "Delegate to current view", where only the     *)
(* logs view handles a LogEntry and only the stats view a ContainerStats.  *)
(***************************************************************************)
Messages == [stream : Streams,
             type : {"LogEntry", "ContainerStats", "ErrorMsg", "error"},
             idx : 0..MaxRecords,
             text : {"", OpenErr("logs"), OpenErr("stats"), ReadErr("logs"),
                     ReadErr("stats")}]

Reduce(m) ==
    /\ running
    /\ ~Updating
    /\ m \in inflight
    /\ inflight' = inflight \ {m}
    /\ IF m.type = "ErrorMsg"
       THEN /\ errorMessage' = <<m.text>>
            /\ clearTimers' = clearTimers + 1
            /\ UNCHANGED <<logsView, statsView>>
       ELSE IF m.type = "LogEntry" /\ currentView = ViewLogs
       THEN /\ logsView' = LogsViewUpdate(logsView, <<m.stream, m.idx>>)
            /\ UNCHANGED <<errorMessage, clearTimers, statsView>>
       ELSE IF m.type = "ContainerStats" /\ currentView = ViewStats
       THEN /\ statsView' = StatsViewUpdate(statsView, <<m.stream, m.idx>>)
            /\ UNCHANGED <<errorMessage, clearTimers, logsView>>
       ELSE UNCHANGED <<errorMessage, clearTimers, logsView, statsView>>
    /\ UNCHANGED <<currentView, statusMessage, running>>
    /\ UNCHANGED <<nextStream, kind, cmdStart, pc, dataChan, errChan, emitted,
                   appWait, viewWait>>
    /\ UNCHANGED NotStream

\* The view's Update loads v.errorChan, the second argument of waitFor*,
\* and returns the re-arm Command on the pair it has loaded; App.Update
\* returns it and the runtime runs it.
ReduceRearm ==
    /\ running
    /\ Updating
    /\ IF logsView.loaded # NoLoad
       THEN /\ viewWait' = LogsRearm(viewWait, logsView)
            /\ logsView' = [logsView EXCEPT !.loaded = NoLoad]
            /\ statsView' = statsView
       ELSE /\ viewWait' = StatsRearm(viewWait, statsView)
            /\ statsView' = [statsView EXCEPT !.loaded = NoLoad]
            /\ logsView' = logsView
    /\ UNCHANGED <<currentView, errorMessage, statusMessage, clearTimers, running>>
    /\ UNCHANGED <<nextStream, kind, cmdStart, pc, dataChan, errChan, emitted,
                   appWait, inflight>>
    /\ UNCHANGED NotStream

\* A clearStatus tick fires and App.Update reduces its ClearStatusMsg.
ClearStatus ==
    /\ running
    /\ ~Updating
    /\ clearTimers > 0
    /\ clearTimers' = clearTimers - 1
    /\ statusMessage' = ""
    /\ errorMessage' = <<>>
    /\ UNCHANGED <<currentView, running, logsView, statsView>>
    /\ UNCHANGED streamVars
    /\ UNCHANGED NotStream

(***************************************************************************)
(* Properties of the Subscription Bridge.                                  *)
(***************************************************************************)
\* Entering the logs or stats view always opens a new stream, so the stream
\* a view was entered for is the last one opened; it is torn down, in the
\* spec's sense, once its view is no longer the current view.
Owner(s) == s = nextStream /\ currentView = ViewOf(kind[s])
TornDown(s) == kind[s] # "none" /\ ~Owner(s)
InFlight(s) == {m \in inflight : m.stream = s}
\* The start Command of stream s is between its first store and its wait.
Starting(s) == \E f \in StoreFields : <<f, s>> \in logsView.stores \cup statsView.stores
\* A select is outstanding that receives the records of stream s, or the
\* start Command or a view's Update is about to make one.
Armed(s) ==
    \/ Starting(s)
    \/ appWait[s] + ViewWaitData(s) > 0
    \/ logsView.loaded = <<s>> \/ statsView.loaded = <<s>>
\* The producer has neither failed nor started to close its channels.
Alive(s) == pc[s] \in {"open", "scan", "send"}
\* Nothing of stream s is left to run: producer returned, no select
\* outstanding, no result on its way to the Reducer.
Ended(s) ==
    pc[s] = "done" /\ ~Armed(s) /\ ViewWaitErr(s) = 0 /\ InFlight(s) = {}
\* The records of stream s among the lines the logs view holds.
LinesOf(s) == SelectSeq(logsView.lines, LAMBDA l : l[1] = s)
\* The messages App.Update reduces in a step: taken out of inflight while
\* the application keeps running.
Reduced == IF running' THEN inflight \ inflight' ELSE {}

\* C1: when the producer of a log stream whose view stayed current emitted
\* N records and closed both channels without an error, and nothing of the
\* stream is left to run, the Reducer has received exactly the N records,
\* in order (each was appended to the view's lines by LogsView.Update).
C1_CleanCloseDeliversAll ==
    \A s \in Streams :
        (kind[s] = "logs" /\ Owner(s) /\ errChan[s] = "empty" /\ Ended(s))
            => LinesOf(s) = [i \in 1..emitted[s] |-> <<s, i>>]

\* C2: while the logs (stats) view is current, has been delivered at least
\* one record, and the stream whose channels it holds is alive, that stream
\* is armed: a next Command is outstanding on it, or the result of one is
\* on its way to the Reducer, whose reduction re-arms it.
C2_RearmInvariant ==
    /\ (currentView = ViewLogs /\ logsView.lines # <<>>
            /\ logsView.logsChan # NoChan /\ Alive(logsView.logsChan))
        => (Armed(logsView.logsChan) \/ \E m \in inflight : m.type = "LogEntry")
    /\ (currentView = ViewStats /\ statsView.history # <<>>
            /\ statsView.statsChan # NoChan /\ Alive(statsView.statsChan))
        => (Armed(statsView.statsChan)
                \/ \E m \in inflight : m.type = "ContainerStats")

\* C2 witness: two records were delivered to the logs view and a re-arm
\* Command made by LogsView.Update is outstanding on the live stream.
C2_Witness ==
    /\ currentView = ViewLogs
    /\ Len(logsView.lines) >= 2
    /\ logsView.logsChan # NoChan
    /\ Alive(logsView.logsChan)
    /\ ViewWaitData(logsView.logsChan) > 0

\* While the view holds the data and the error channel of one and the same
\* stream, the re-arm invariant of C2 holds: it is lost only when the stores
\* of two start Commands interleave and leave the view with the data channel
\* of one stream and the error channel of another.
C2_RearmOfOneStream ==
    (logsView.errorChan = logsView.logsChan
        /\ statsView.errorChan = statsView.statsChan) => C2_RearmInvariant

\* C3: once the view of a stream has been left, the Reducer receives no
\* further Event of that stream.
C3_NoEventAfterTeardown ==
    [][\A m \in Reduced : ~TornDown(m.stream)]_vars

\* C4: after its view was left, a producer is never blocked for good in the
\* send on the full data channel, with no next Command outstanding on the
\* stream, no result of one pending, and the channels no longer held by
\* the view (nothing is left that could ever receive from it).
C4_ProducerNeverStuck ==
    \A s \in Streams :
        ~ /\ TornDown(s)
          /\ pc[s] = "send"
          /\ Len(dataChan[s]) = ChanCap
          /\ ~Armed(s)
          /\ InFlight(s) = {}
          /\ logsView.logsChan # s
          /\ statsView.statsChan # s

\* C5: every reduction of a stream's error Event (ErrorMsg or bare error)
\* sets the error banner to the error's text and schedules its clear.
C5_ErrorSetsBanner ==
    [][\A m \in Reduced :
          m.type \in {"ErrorMsg", "error"}
              => (errorMessage' = <<m.text>> /\ clearTimers' = clearTimers + 1)]_vars


(***************************************************************************)
(* The Group Store: GroupManager over models.GroupConfig.  m.config.Groups *)
(* is a Go slice: a backing array (groups) of which the first glen slots   *)
(* are the groups.  FindGroup returns a pointer to a slot of that array,   *)
(* modelled as the slot's index (0 for nil).  Every mutation holds m.mu    *)
(* from its first statement to its return, so it is one step here; a read  *)
(* made through a pointer after GetGroup released the lock is a step of    *)
(* its own.                                                                *)
(***************************************************************************)
\* Container ids, each as <<its first 12 characters, the rest>>.
ContainerIDs == {<<"a1", "x">>, <<"b2", "y">>, <<"c3", "z">>}
GroupIDs == <<"g1", "g2">>
\* Errors a container operation can return.
Causes == {"e1", "e2"}

\* models.Group: the fields the store's logic reads.
Group(id, members) == [id |-> id, members |-> members]
\* Member lists without repetition, of at most n ids.
MemberLists(n) ==
    {q \in UNION {[1..k -> ContainerIDs] : k \in 0..n} :
        \A i, j \in 1..Len(q) : i # j => q[i] # q[j]}

\* GroupConfig.FindGroup: the first slot among 1..n holding id, 0 if none.
FindGroup(gs, n, id) ==
    LET hit == {i \in 1..n : gs[i].id = id}
    IN IF hit = {} THEN 0 ELSE CHOOSE i \in hit : \A j \in hit : i <= j
\* GroupConfig.RemoveGroup, append(gc.Groups[:i], gc.Groups[i+1:]...): the
\* slots after i move down by one inside the same array; the last slot
\* keeps its old content and falls out of the slice.
RemoveGroup(gs, n, i) ==
    [j \in 1..Len(gs) |-> IF j >= i /\ j < n THEN gs[j + 1] ELSE gs[j]]
\* What SaveConfig marshals: the groups of the slice.
Saved(gs, n) == SubSeq(gs, 1, n)
\* The filtered copy RemoveContainerFromGroup builds.
Without(members, c) == SelectSeq(members, LAMBDA id : id # c)

\* NewGroupConfig: no groups.
StoreEmpty ==
    /\ groups = <<>>
    /\ glen = 0
    /\ disk = <<>>
    /\ storeErr = "none"
    /\ storeOps = 0
    /\ mu = 0
    /\ sc = <<>>

\* NewGroupManager loaded a configuration of two groups.
StoreInit ==
    /\ \E m1, m2 \in MemberLists(MaxInitMembers) :
          groups = <<Group(GroupIDs[1], m1), Group(GroupIDs[2], m2)>>
    /\ glen = Len(GroupIDs)
    /\ disk = groups
    /\ storeErr = "none"
    /\ storeOps = 0
    /\ mu = 0
    /\ sc = <<>>

\* NewGroupManager loaded a configuration of two groups, the second one
\* without members yet.
StoreSecondEmpty ==
    /\ \E m1 \in MemberLists(MaxInitMembers) :
          groups = <<Group(GroupIDs[1], m1), Group(GroupIDs[2], <<>>)>>
    /\ glen = Len(GroupIDs)
    /\ disk = groups
    /\ storeErr = "none"
    /\ storeOps = 0
    /\ mu = 0
    /\ sc = <<>>

\* m.save(): SaveConfig writes the groups (ok) or fails and leaves the file.
Save(ok) ==
    /\ disk' = IF ok THEN Saved(groups', glen') ELSE disk
    /\ storeErr' = IF ok THEN "nil" ELSE "save failed"

AddContainerToGroup(g, c, ok) ==
    /\ storeOps < MaxStoreOps
    /\ storeOps' = storeOps + 1
    /\ LET i == FindGroup(groups, glen, g) IN
        IF i = 0
        THEN storeErr' = "group not found" /\ UNCHANGED <<groups, glen, disk>>
        ELSE IF \E k \in 1..Len(groups[i].members) : groups[i].members[k] = c
        THEN storeErr' = "nil" /\ UNCHANGED <<groups, glen, disk>>
        ELSE /\ groups' = [groups EXCEPT ![i].members = Append(@, c)]
             /\ glen' = glen
             /\ Save(ok)
    /\ UNCHANGED <<mu, sc>>
    /\ UNCHANGED <<appVars, NotBatch, batchVars>>

RemoveContainerFromGroup(g, c, ok) ==
    /\ storeOps < MaxStoreOps
    /\ storeOps' = storeOps + 1
    /\ LET i == FindGroup(groups, glen, g) IN
        IF i = 0
        THEN storeErr' = "group not found" /\ UNCHANGED <<groups, glen, disk>>
        ELSE /\ groups' = [groups EXCEPT ![i].members = Without(@, c)]
             /\ glen' = glen
             /\ Save(ok)
    /\ UNCHANGED <<mu, sc>>
    /\ UNCHANGED <<appVars, NotBatch, batchVars>>

DeleteGroup(g, ok) ==
    /\ storeOps < MaxStoreOps
    /\ storeOps' = storeOps + 1
    /\ LET i == FindGroup(groups, glen, g) IN
        IF i = 0
        THEN storeErr' = "group not found" /\ UNCHANGED <<groups, glen, disk>>
        ELSE /\ groups' = RemoveGroup(groups, glen, i)
             /\ glen' = glen - 1
             /\ Save(ok)
    /\ UNCHANGED <<mu, sc>>
    /\ UNCHANGED <<appVars, NotBatch, batchVars>>

\* CreateGroup with no members: AddGroup appends the new group.
CreateGroup(ok) ==
    /\ storeOps < MaxStoreOps
    /\ storeOps' = storeOps + 1
    /\ groups' = IF glen < Len(groups)
                 THEN [groups EXCEPT ![glen + 1] = Group("u1", <<>>)]
                 ELSE Append(groups, Group("u1", <<>>))
    /\ glen' = glen + 1
    /\ Save(ok)
    /\ UNCHANGED <<mu, sc>>
    /\ UNCHANGED <<appVars, NotBatch, batchVars>>

\* The first position of id in members, 0 if none.
FirstAt(members, id) ==
    LET hit == {k \in 1..Len(members) : members[k] = id}
    IN IF hit = {} THEN 0 ELSE CHOOSE k \in hit : \A j \in hit : k <= j
\* ReplaceContainerID: in every group the first occurrence of oldID becomes
\* newID; the store is saved only when a group was modified.
ReplaceContainerID(oldID, newID, ok) ==
    /\ storeOps < MaxStoreOps
    /\ storeOps' = storeOps + 1
    /\ LET hit == {i \in 1..glen : FirstAt(groups[i].members, oldID) # 0} IN
          /\ groups' = [i \in 1..Len(groups) |->
                           IF i \in hit
                           THEN [groups[i] EXCEPT
                                   !.members[FirstAt(groups[i].members, oldID)]
                                       = newID]
                           ELSE groups[i]]
          /\ glen' = glen
          /\ IF hit # {} THEN Save(ok)
             ELSE storeErr' = "nil" /\ UNCHANGED disk
    /\ UNCHANGED <<mu, sc>>
    /\ UNCHANGED <<appVars, NotBatch, batchVars>>

\* RemoveContainerFromAllGroups: every group loses the container; the store
\* is saved only when a group held it.
RemoveContainerFromAllGroups(c, ok) ==
    /\ storeOps < MaxStoreOps
    /\ storeOps' = storeOps + 1
    /\ LET hit == {i \in 1..glen : FirstAt(groups[i].members, c) # 0} IN
          /\ groups' = [i \in 1..Len(groups) |->
                           IF i \in hit
                           THEN [groups[i] EXCEPT !.members = Without(@, c)]
                           ELSE groups[i]]
          /\ glen' = glen
          /\ IF hit # {} THEN Save(ok)
             ELSE storeErr' = "nil" /\ UNCHANGED disk
    /\ UNCHANGED <<mu, sc>>
    /\ UNCHANGED <<appVars, NotBatch, batchVars>>

\* UpdateGroup: the group with the same ID is replaced.
UpdateGroup(g, members, ok) ==
    /\ storeOps < MaxStoreOps
    /\ storeOps' = storeOps + 1
    /\ LET i == FindGroup(groups, glen, g) IN
        IF i = 0
        THEN storeErr' = "group not found" /\ UNCHANGED <<groups, glen, disk>>
        ELSE /\ groups' = [groups EXCEPT ![i] = Group(g, members)]
             /\ glen' = glen
             /\ Save(ok)
    /\ UNCHANGED <<mu, sc>>
    /\ UNCHANGED <<appVars, NotBatch, batchVars>>

\* ---- The same mutations step by step, as concurrent calls ----
\* The configuration NewGroupManager loaded for these calls.
LoadedGroups ==
    <<Group(GroupIDs[1], <<<<"a1", "x">>>>), Group(GroupIDs[2], <<>>)>>
StoreLoaded ==
    /\ groups = LoadedGroups
    /\ glen = Len(LoadedGroups)
    /\ disk = LoadedGroups
    /\ storeErr = "none"
    /\ storeOps = 0
    /\ mu = 0
    /\ sc = <<>>
\* uuid.New().String() of the i-th call.
NewGroupID(i) == IF i = 1 THEN "u1" ELSE IF i = 2 THEN "u2" ELSE "u3"
StoreMutations == {"CreateGroup", "AddContainerToGroup",
                   "RemoveContainerFromGroup", "DeleteGroup"}
StoreMembers == {<<"a1", "x">>, <<"b2", "y">>}
\* A Command goroutine calls a mutation of the GroupManager.
StoreCall(op, g, c) ==
    /\ Len(sc) < MaxCalls
    /\ sc' = Append(sc, [op |-> op,
                         g |-> IF op = "CreateGroup"
                               THEN NewGroupID(Len(sc) + 1) ELSE g,
                         c |-> IF op \in {"CreateGroup", "DeleteGroup"}
                               THEN <<>> ELSE c,
                         pc |-> "lock", p |-> 0, ret |-> "none"])
    /\ UNCHANGED <<groups, glen, disk, storeErr, storeOps, mu>>
    /\ UNCHANGED <<appVars, NotBatch, batchVars>>
\* A lock that excludes nobody.
LockShared(i) ==
    /\ i \in 1..Len(sc)
    /\ sc[i].pc = "lock"
    /\ mu' = i
    /\ sc' = [sc EXCEPT ![i].pc = "find"]
    /\ UNCHANGED <<groups, glen, disk, storeErr, storeOps>>
    /\ UNCHANGED <<appVars, NotBatch, batchVars>>
\* m.mu.Lock(): waits until the mutex is free.
Lock(i) ==
    /\ i \in 1..Len(sc)
    /\ sc[i].pc = "lock"
    /\ mu = 0
    /\ mu' = i
    /\ sc' = [sc EXCEPT ![i].pc = "find"]
    /\ UNCHANGED <<groups, glen, disk, storeErr, storeOps>>
    /\ UNCHANGED <<appVars, NotBatch, batchVars>>
\* The lookup: FindGroup of the two member mutations (nil: "group not
\* found"; AddContainerToGroup of a member: nil error without a save),
\* RemoveGroup of DeleteGroup, nothing for CreateGroup.
StoreFind(i) ==
    /\ i \in 1..Len(sc)
    /\ sc[i].pc = "find"
    /\ LET call == sc[i]
           p == FindGroup(groups, glen, call.g)
       IN /\ sc' = [sc EXCEPT ![i] =
                  IF call.op = "CreateGroup" THEN [call EXCEPT !.pc = "write"]
                  ELSE IF p = 0
                  THEN [call EXCEPT !.pc = "unlock", !.ret = "group not found"]
                  ELSE IF /\ call.op = "AddContainerToGroup"
                          /\ \E k \in 1..Len(groups[p].members) :
                                 groups[p].members[k] = call.c
                  THEN [call EXCEPT !.pc = "unlock", !.ret = "nil"]
                  ELSE [call EXCEPT !.pc = "write", !.p = p]]
    /\ UNCHANGED <<groups, glen, disk, storeErr, storeOps, mu>>
    /\ UNCHANGED <<appVars, NotBatch, batchVars>>
\* The change in memory: AddGroup appends; RemoveGroup shifts the slots
\* after p down; the member mutations assign group.ContainerIDs through the
\* pointer FindGroup returned and UpdateGroup stores the group by its ID.
StoreWrite(i) ==
    /\ i \in 1..Len(sc)
    /\ sc[i].pc = "write"
    /\ LET call == sc[i] IN
        IF call.op = "CreateGroup"
        THEN /\ groups' = IF glen < Len(groups)
                            THEN [groups EXCEPT ![glen + 1] = Group(call.g, <<>>)]
                            ELSE Append(groups, Group(call.g, <<>>))
             /\ glen' = glen + 1
             /\ sc' = [sc EXCEPT ![i].pc = "save"]
        ELSE IF call.op = "DeleteGroup"
        THEN /\ groups' = RemoveGroup(groups, glen, call.p)
             /\ glen' = glen - 1
             /\ sc' = [sc EXCEPT ![i].pc = "save"]
        ELSE LET members == IF call.op = "AddContainerToGroup"
                            THEN Append(groups[call.p].members, call.c)
                            ELSE Without(groups[call.p].members, call.c)
                 written == [groups EXCEPT ![call.p].members = members]
                 q == FindGroup(written, glen, written[call.p].id)
             IN /\ glen' = glen
                /\ groups' = IF q = 0 THEN written
                             ELSE [written EXCEPT ![q] = written[call.p]]
                /\ sc' = [sc EXCEPT ![i] =
                       IF q = 0
                       THEN [call EXCEPT !.pc = "unlock",
                                         !.ret = "failed to update group"]
                       ELSE [call EXCEPT !.pc = "save"]]
    /\ UNCHANGED <<disk, storeErr, storeOps, mu>>
    /\ UNCHANGED <<appVars, NotBatch, batchVars>>
\* m.save(): SaveConfig writes the groups or fails and leaves the file.
StoreSave(i, ok) ==
    /\ i \in 1..Len(sc)
    /\ sc[i].pc = "save"
    /\ disk' = IF ok THEN Saved(groups, glen) ELSE disk
    /\ sc' = [sc EXCEPT ![i].pc = "unlock",
                        ![i].ret = IF ok THEN "nil" ELSE "save failed"]
    /\ UNCHANGED <<groups, glen, storeErr, storeOps, mu>>
    /\ UNCHANGED <<appVars, NotBatch, batchVars>>
\* The deferred m.mu.Unlock() and the return.
StoreReturn(i) ==
    /\ i \in 1..Len(sc)
    /\ sc[i].pc = "unlock"
    /\ mu' = IF mu = i THEN 0 ELSE mu
    /\ sc' = [sc EXCEPT ![i].pc = "done"]
    /\ storeErr' = sc[i].ret
    /\ UNCHANGED <<groups, glen, disk, storeOps>>
    /\ UNCHANGED <<appVars, NotBatch, batchVars>>

(***************************************************************************)
(* The Batch Executor: GroupManager.ExecuteGroupOperation, called by the   *)
(* Command of startGroup / stopGroup on a Command goroutine.               *)
(***************************************************************************)
\* r.containerID[:12]
ShortID(id) == id[1]

\* The error values ExecuteGroupOperation returns.
NilErr == [kind |-> "nil", group |-> "", errs |-> <<>>]
NotFoundErr(g) == [kind |-> "group not found", group |-> g, errs |-> <<>>]

\* "Collect errors": one entry "<short id>: <cause>" per result with an
\* error, in the order the results were sent.
ErrEntries(rs) ==
    LET f == SelectSeq(rs, LAMBDA r : r.err # "nil")
    IN [j \in 1..Len(f) |-> <<ShortID(f[j].containerID), f[j].err>>]
AllEntries(rs) ==
    [j \in 1..Len(rs) |-> <<ShortID(rs[j].containerID), rs[j].err>>]
AggregateAll(rs) ==
    IF Len(AllEntries(rs)) > 0
    THEN [kind |-> "group operation failed", group |-> "", errs |-> AllEntries(rs)]
    ELSE NilErr
Aggregate(rs) ==
    IF Len(ErrEntries(rs)) > 0
    THEN [kind |-> "group operation failed", group |-> "", errs |-> ErrEntries(rs)]
    ELSE NilErr

\* wg.Add(1); go func(id string) {...}(containerID): one more goroutine.
GoWorkerUnlessFailed(ws, id) ==
    IF \E i \in 1..Len(ws) : ws[i].err \in Causes
    THEN ws
    ELSE Append(ws, [id |-> id, st |-> "ready", err |-> "none"])
GoWorker(ws, id) == Append(ws, [id |-> id, st |-> "ready", err |-> "none"])

ExIdle == [pc |-> "idle", n |-> 0, groupID |-> "",
           group |-> 0, cap |-> 0, tasks |-> <<>>, next |-> 1,
           rangeID |-> "", err |-> NilErr]
NoCalls == [id \in ContainerIDs |-> 0]

BatchIdle ==
    /\ ex = ExIdle
    /\ workers = <<>>
    /\ results = <<>>
    /\ calls = NoCalls
    /\ batchMsg = {}

\* "s" in the groups view on the list tab with group g selected in the
\* view's (possibly outdated) list: App.Update returns startGroup, whose
\* Command calls ExecuteGroupOperation(ctx, g, operation).  ("x" returns
\* stopGroup, the same Command with StopContainer as the operation.)
KeyStartGroup(g) ==
    /\ running
    /\ currentView = ViewGroups
    /\ groupsView.currentTab = 0
    /\ \E i \in 1..Len(groupsView.groups) : groupsView.groups[i].id = g
    /\ ex.pc \in {"idle", "done"}
    /\ batchMsg = {}
    /\ ex.n < MaxBatches
    /\ ex' = [ExIdle EXCEPT !.pc = "call", !.n = ex.n + 1, !.groupID = g]
    /\ workers' = <<>>
    /\ results' = <<>>
    /\ calls' = NoCalls
    /\ UNCHANGED <<appVars, NotBatch, storeVars, batchMsg>>

\* group := m.GetGroup(groupID), under the read lock; nil: return the
\* "group not found" error.
ExGetGroup ==
    /\ ex.pc = "call"
    /\ LET i == FindGroup(groups, glen, ex.groupID) IN
        ex' = IF i = 0
              THEN [ex EXCEPT !.pc = "ret", !.err = NotFoundErr(ex.groupID)]
              ELSE [ex EXCEPT !.pc = "make", !.group = i]
    /\ UNCHANGED <<appVars, NotBatch, storeVars, workers, results, calls,
                   batchMsg>>

\* results := make(chan result, len(group.ContainerIDs)): the length is
\* read through the pointer, no lock held.
ExMakeChan ==
    /\ ex.pc = "make"
    /\ ex' = [ex EXCEPT !.pc = "range", !.cap = Len(groups[ex.group].members)]
    /\ UNCHANGED <<appVars, NotBatch, storeVars, workers, results, calls,
                   batchMsg>>

\* for _, containerID := range group.ContainerIDs: the range expression is
\* evaluated once, through the pointer, no lock held.
ExRange ==
    /\ ex.pc = "range"
    /\ ex' = [ex EXCEPT !.pc = "loop", !.next = 1,
                        !.tasks = groups[ex.group].members,
                        !.rangeID = groups[ex.group].id]
    /\ UNCHANGED <<appVars, NotBatch, storeVars, workers, results, calls,
                   batchMsg>>

\* One iteration of the loop: start the goroutine of the next task.
ExLaunch ==
    /\ ex.pc = "loop"
    /\ ex.next <= Len(ex.tasks)
    /\ workers' = GoWorker(workers, ex.tasks[ex.next])
    /\ ex' = [ex EXCEPT !.next = ex.next + 1]
    /\ UNCHANGED <<appVars, NotBatch, storeVars, results, calls, batchMsg>>

WorkerIdx == 1..Cardinality(ContainerIDs)

\* The goroutine calls operation(ctx, id).
WorkerCall(i) ==
    /\ i <= Len(workers)
    /\ workers[i].st = "ready"
    /\ workers' = [workers EXCEPT ![i].st = "run"]
    /\ calls' = [calls EXCEPT ![workers[i].id] = @ + 1]
    /\ UNCHANGED <<appVars, NotBatch, storeVars, ex, results, batchMsg>>

\* operation returns e: nil or an error (the Docker call is bounded by the
\* Command's 30 s context).
WorkerReturn(i, e) ==
    /\ i <= Len(workers)
    /\ workers[i].st = "run"
    /\ workers' = [workers EXCEPT ![i].st = "send", ![i].err = e]
    /\ UNCHANGED <<appVars, NotBatch, storeVars, ex, results, calls, batchMsg>>

\* results <- result{containerID: id, err: err}, then the deferred
\* wg.Done().  The send waits while the channel holds cap results.
WorkerSend(i) ==
    /\ i <= Len(workers)
    /\ workers[i].st = "send"
    /\ Len(results) < ex.cap
    /\ results' = Append(results, [containerID |-> workers[i].id,
                                   err |-> workers[i].err])
    /\ workers' = [workers EXCEPT ![i].st = "done"]
    /\ UNCHANGED <<appVars, NotBatch, storeVars, ex, calls, batchMsg>>

\* The loop is over; wg.Wait() returns once every goroutine is done, then
\* close(results).
ExWait ==
    /\ ex.pc = "loop"
    /\ ex.next > Len(ex.tasks)
    /\ \A i \in 1..Len(workers) : workers[i].st = "done"
    /\ ex' = [ex EXCEPT !.pc = "collect"]
    /\ UNCHANGED <<appVars, NotBatch, storeVars, workers, results, calls,
                   batchMsg>>

\* for r := range results {...}: drain the closed channel, build the error.
ExCollect ==
    /\ ex.pc = "collect"
    /\ ex' = [ex EXCEPT !.pc = "ret", !.err = Aggregate(results)]
    /\ results' = <<>>
    /\ UNCHANGED <<appVars, NotBatch, storeVars, workers, calls, batchMsg>>

\* ExecuteGroupOperation returns; the Command returns its message.
ExReturn ==
    /\ ex.pc = "ret"
    /\ ex' = [ex EXCEPT !.pc = "done"]
    /\ batchMsg' = {[type |-> "GroupStartedMsg", groupID |-> ex.groupID,
                     err |-> ex.err]}
    /\ UNCHANGED <<appVars, NotBatch, storeVars, workers, results, calls>>

\* App.Update, case GroupStartedMsg.
ReduceGroupStarted ==
    /\ running
    /\ batchMsg # {}
    /\ LET m == CHOOSE x \in batchMsg : TRUE IN
        IF m.err # NilErr
        THEN /\ errorMessage' = <<"Failed to start group: ", m.err>>
             /\ statusMessage' = statusMessage
        ELSE /\ statusMessage' = "Group started successfully"
             /\ errorMessage' = errorMessage
    /\ clearTimers' = clearTimers + 1
    /\ batchMsg' = {}
    /\ UNCHANGED <<currentView, running, logsView, statsView>>
    /\ UNCHANGED <<NotBatch, storeVars, ex, workers, results, calls>>

(***************************************************************************)
(* Properties of the Batch Executor.                                       *)
(***************************************************************************)
\* The launched tasks whose operation returned an error.
Failing == {i \in 1..Len(workers) : workers[i].err \in Causes}
\* ExecuteGroupOperation found the group and has built its return value.
Returned == ex.pc \in {"ret", "done"} /\ ex.group # 0

\* C6: when ExecuteGroupOperation returns from a batch of N tasks of which
\* k failed, the error is nil iff k = 0; otherwise it has exactly k entries,
\* one per failing task, each the task's (short) container id with the
\* cause its own operation returned, and no entry names a task that
\* succeeded.  The Command's message carries that same error.
C6_AggregateNamesFailures ==
    Returned =>
        LET named == {ex.err.errs[j] : j \in 1..Len(ex.err.errs)}
        IN /\ (ex.err = NilErr) <=> (Failing = {})
           /\ Len(ex.err.errs) = Cardinality(Failing)
           /\ named = {<<ShortID(workers[i].id), workers[i].err>> : i \in Failing}
           /\ \A i \in (1..Len(workers)) \ Failing :
                  \A e \in named : e[1] # ShortID(workers[i].id)
           /\ \A m \in batchMsg : m.err = ex.err

\* C6 witness: a batch of three tasks returned with two failures.
C6_Witness ==
    /\ Returned
    /\ Len(workers) = 3
    /\ Cardinality(Failing) = 2
    /\ batchMsg # {}

\* C7: no operation is invoked twice, and when the barrier has been passed
\* every task of the batch has had its operation invoked exactly once,
\* whichever of them failed.
C7_EachInvokedOnce ==
    /\ \A id \in ContainerIDs : calls[id] <= 1
    /\ (ex.pc \in {"collect", "ret", "done"} /\ ex.group # 0)
          => /\ Len(workers) = Len(ex.tasks)
             /\ \A i \in 1..Len(ex.tasks) : calls[ex.tasks[i]] = 1

\* C7 witness: of three tasks the second has failed while the operations
\* of the first and the third are both in progress.
C7_Witness ==
    /\ Len(workers) = 3
    /\ workers[2].err \in Causes
    /\ workers[1].st = "run"
    /\ workers[3].st = "run"

\* C8: ExecuteGroupOperation never ends up with every operation returned,
\* the launch loop over, and a goroutine waiting to send on a results
\* channel that is full, where wg.Wait() cannot return and nothing
\* receives.
C8_NoWorkerBlockedForever ==
    ~ /\ ex.pc = "loop"
      /\ ex.next > Len(ex.tasks)
      /\ \A i \in 1..Len(workers) : workers[i].st \in {"send", "done"}
      /\ \E i \in 1..Len(workers) : workers[i].st = "send"
      /\ Len(results) >= ex.cap

\* C9: the member list a batch ranges over is read from the group it was
\* called for.
C9_TasksOfRequestedGroup ==
    (ex.pc \in {"loop", "collect", "ret", "done"} /\ ex.group # 0)
        => ex.rangeID = ex.groupID

(***************************************************************************)
(* Environment editing and the Recreate Workflow: the Command of           *)
(* recreateContainer calls Client.RecreateContainer, which stops and       *)
(* removes the old container, creates the new one on one of the spec's     *)
(* networks, attaches the others and starts it.                            *)
(***************************************************************************)
Networks == {"n1", "n2", "n3"}
\* The id the daemon gives the container it creates (resp.ID).
NewID == "new"

NoEnv == [has |-> FALSE, id |-> "", nets |-> {}]
RecNew == [pc |-> "idle", n |-> 0, oldID |-> "", nets |-> {}, first |-> "",
             left |-> {}, id |-> "", ret |-> [id |-> "", err |-> "nil"]]

RecIdle ==
    /\ pendingEnv = NoEnv
    /\ envModified = FALSE
    /\ rec = RecNew
    /\ steps = <<>>
    /\ recMsg = {}

\* The values RecreateContainer returns.
RemoveFailed == [id |-> "", err |-> "failed to remove old container"]
CreateFailed == [id |-> "", err |-> "failed to create new container"]
StartFailedNoID(id) == [id |-> "", err |-> "container created but failed to start"]
StartFailed(id) == [id |-> id, err |-> "container created but failed to start"]
Recreated(id) == [id |-> id, err |-> "nil"]

\* One Docker API call of the workflow and whether it succeeded.
Step(name, arg, ok) == [step |-> name, arg |-> arg, ok |-> ok]

\* A variable is added, changed or deleted in the env vars editor.
EnvEdit ==
    /\ running
    /\ currentView = ViewEnvVars
    /\ ~envModified
    /\ envModified' = TRUE
    /\ UNCHANGED <<appVars, NotRecreate, pendingEnv, rec, steps, recMsg>>

\* "ctrl+s" in the env vars view with modifications and a pending
\* configuration: App.Update returns recreateContainer(a.docker,
\* SelectedContainer.ID, pendingEnvContainer); its Command calls
\* RecreateContainer.
KeyCtrlS ==
    /\ running
    /\ currentView = ViewEnvVars
    /\ envModified
    /\ pendingEnv.has
    /\ rec.pc \in {"idle", "done"}
    /\ recMsg = {}
    /\ rec.n < MaxRecreates
    /\ rec' = [RecNew EXCEPT !.pc = "stop", !.n = rec.n + 1,
                               !.oldID = pendingEnv.id, !.nets = pendingEnv.nets]
    /\ steps' = <<>>
    /\ UNCHANGED <<appVars, NotRecreate, pendingEnv, envModified, recMsg>>

\* Variants of the steps in which a failure is treated differently from the
\* source: a failed stop aborts; a failed remove is passed over; a failed
\* attach aborts; the creation network is attached again after creation.
RecStopAborting(ok) ==
    /\ rec.pc = "stop"
    /\ steps' = Append(steps, Step("stop", rec.oldID, ok))
    /\ rec' = IF ok THEN [rec EXCEPT !.pc = "remove"]
              ELSE [rec EXCEPT !.pc = "ret", !.ret = RemoveFailed]
    /\ UNCHANGED <<appVars, NotRecreate, pendingEnv, envModified, recMsg>>
RecRemoveContinuing(ok) ==
    /\ rec.pc = "remove"
    /\ steps' = Append(steps, Step("remove", rec.oldID, ok))
    /\ rec' = [rec EXCEPT !.pc = "build"]
    /\ UNCHANGED <<appVars, NotRecreate, pendingEnv, envModified, recMsg>>
RecAttachAborting(net, ok) ==
    /\ rec.pc = "attach"
    /\ net \in rec.left
    /\ steps' = Append(steps, Step("attach", net, ok))
    /\ rec' = IF ok THEN [rec EXCEPT !.left = rec.left \ {net}]
              ELSE [rec EXCEPT !.pc = "ret", !.ret = CreateFailed]
    /\ UNCHANGED <<appVars, NotRecreate, pendingEnv, envModified, recMsg>>
RecCreateAttachAll(ok) ==
    /\ rec.pc = "create"
    /\ steps' = Append(steps, Step("create", rec.first, ok))
    /\ rec' = IF ok
              THEN [rec EXCEPT !.pc = "attach", !.id = NewID, !.left = rec.nets]
              ELSE [rec EXCEPT !.pc = "ret", !.ret = CreateFailed]
    /\ UNCHANGED <<appVars, NotRecreate, pendingEnv, envModified, recMsg>>

\* 1. ContainerStop: its error is discarded.
RecStop(ok) ==
    /\ rec.pc = "stop"
    /\ steps' = Append(steps, Step("stop", rec.oldID, ok))
    /\ rec' = [rec EXCEPT !.pc = "remove"]
    /\ UNCHANGED <<appVars, NotRecreate, pendingEnv, envModified, recMsg>>

\* 2. ContainerRemove: on an error return "" and the error.
RecRemove(ok) ==
    /\ rec.pc = "remove"
    /\ steps' = Append(steps, Step("remove", rec.oldID, ok))
    /\ rec' = IF ok THEN [rec EXCEPT !.pc = "build"]
              ELSE [rec EXCEPT !.pc = "ret", !.ret = RemoveFailed]
    /\ UNCHANGED <<appVars, NotRecreate, pendingEnv, envModified, recMsg>>

\* 3.-5. Build the configurations; the network of creation is the first
\* one the range over the map newConfig.Networks yields (any of them), and
\* none when the map is empty.
RecBuild(first) ==
    /\ rec.pc = "build"
    /\ IF rec.nets = {} THEN first = "" ELSE first \in rec.nets
    /\ rec' = [rec EXCEPT !.pc = "create", !.first = first]
    /\ UNCHANGED <<appVars, NotRecreate, pendingEnv, envModified, steps, recMsg>>

\* 6. ContainerCreate: on an error return "" and the error.
RecCreate(ok) ==
    /\ rec.pc = "create"
    /\ steps' = Append(steps, Step("create", rec.first, ok))
    /\ rec' = IF ok
              THEN [rec EXCEPT !.pc = "attach", !.id = NewID,
                               !.left = rec.nets \ {rec.first}]
              ELSE [rec EXCEPT !.pc = "ret", !.ret = CreateFailed]
    /\ UNCHANGED <<appVars, NotRecreate, pendingEnv, envModified, recMsg>>

\* 7. One iteration of the loop over the other networks, in the map's
\* order: NetworkConnect, whose error is skipped over.
RecAttach(net, ok) ==
    /\ rec.pc = "attach"
    /\ net \in rec.left
    /\ steps' = Append(steps, Step("attach", net, ok))
    /\ rec' = [rec EXCEPT !.left = rec.left \ {net}]
    /\ UNCHANGED <<appVars, NotRecreate, pendingEnv, envModified, recMsg>>

\* 8. ContainerStart: on an error return the new id and the error, else
\* the new id.
RecStartContainer(ok) ==
    /\ rec.pc = "attach"
    /\ rec.left = {}
    /\ steps' = Append(steps, Step("start", rec.id, ok))
    /\ rec' = [rec EXCEPT !.pc = "ret",
                          !.ret = IF ok THEN Recreated(rec.id)
                                  ELSE StartFailed(rec.id)]
    /\ UNCHANGED <<appVars, NotRecreate, pendingEnv, envModified, recMsg>>

\* RecreateContainer has returned; the Command returns its message.
RecReturn ==
    /\ rec.pc = "ret"
    /\ rec' = [rec EXCEPT !.pc = "done"]
    /\ recMsg' = {[oldID |-> rec.oldID, newID |-> rec.ret.id,
                   err |-> rec.ret.err]}
    /\ UNCHANGED <<appVars, NotRecreate, pendingEnv, envModified, steps>>

\* App.Update, case ContainerRecreatedMsg.
ReduceRecreated ==
    /\ running
    /\ recMsg # {}
    /\ LET m == CHOOSE x \in recMsg : TRUE IN
        IF m.err # "nil"
        THEN /\ errorMessage' = <<"Failed to rebuild container: ", m.err>>
             /\ statusMessage' = statusMessage
        ELSE /\ statusMessage' = "Container rebuilt with new environment"
             /\ errorMessage' = errorMessage
    /\ pendingEnv' = NoEnv
    /\ currentView' = ViewContainers
    /\ clearTimers' = clearTimers + 1
    /\ recMsg' = {}
    /\ UNCHANGED <<running, logsView, statsView>>
    /\ UNCHANGED <<NotRecreate, envModified, rec, steps>>

(***************************************************************************)
(* Properties of the Recreate Workflow.                                    *)
(***************************************************************************)
\* The workflow made the call `name` and it succeeded / failed.
StepOK(name) == \E i \in 1..Len(steps) : steps[i].step = name /\ steps[i].ok
StepFailed(name) == \E i \in 1..Len(steps) : steps[i].step = name /\ ~steps[i].ok

\* C10: when create succeeded and start failed, RecreateContainer returns
\* the id the daemon gave the new container, which is not empty, together
\* with the start error, and the ContainerRecreatedMsg carries that id and
\* that error.
C10_StartFailureKeepsNewID ==
    (rec.pc \in {"ret", "done"} /\ StepOK("create") /\ StepFailed("start"))
        => /\ rec.ret.id = rec.id
           /\ rec.ret.id # ""
           /\ rec.ret.err = "container created but failed to start"
           /\ \A m \in recMsg : m.newID = rec.id /\ m.err = rec.ret.err

\* C10 witness: the message of a workflow whose create succeeded and whose
\* start failed is on its way to the Reducer.
C10_Witness ==
    /\ StepOK("create")
    /\ StepFailed("start")
    /\ recMsg # {}

\* The positions in the log of the calls named `name`, and the names in
\* the order of the calls.
StepsOf(name) == {i \in 1..Len(steps) : steps[i].step = name}
\* The workflow is over (RecreateContainer has a return value).
RecOver == rec.pc \in {"ret", "done"}
\* The networks the workflow has tried to attach after creation.
Attached == {steps[i].arg : i \in StepsOf("attach")}

\* C11: the first call is the stop; when it failed the workflow still goes
\* on to the remove, which is its second call, and what it returns is never
\* due to the stop.
C11_StopFailureIgnored ==
    (Len(steps) >= 1 /\ ~steps[1].ok)
        => /\ steps[1].step = "stop"
           /\ \/ rec.pc = "remove" /\ Len(steps) = 1
              \/ Len(steps) >= 2 /\ steps[2].step = "remove"

\* C11 witness: the stop failed and the remove was made and succeeded.
C11_Witness ==
    /\ Len(steps) >= 2
    /\ steps[1].step = "stop" /\ ~steps[1].ok
    /\ steps[2].step = "remove" /\ steps[2].ok

\* C12: the calls are made in the order stop, remove, create, attach...,
\* start, each at most once but the attaches; after a failed remove or a
\* failed create no further call is made and the id returned is empty; a
\* returned error comes with a non-empty id only when the start failed.
C12_StrictOrderAndAborts ==
    /\ \A i \in 1..Len(steps) :
          steps[i].step = IF i = 1 THEN "stop"
                          ELSE IF i = 2 THEN "remove"
                          ELSE IF i = 3 THEN "create"
                          ELSE IF i < Len(steps) \/ ~RecOver THEN "attach"
                          ELSE "start"
    /\ StepFailed("remove") => (Len(steps) = 2 /\ RecOver /\ rec.ret.id = "")
    /\ StepFailed("create") => (Len(steps) = 3 /\ RecOver /\ rec.ret.id = "")
    /\ (RecOver /\ rec.ret.err # "nil" /\ rec.ret.id # "") => StepFailed("start")
    /\ (RecOver /\ rec.ret.err = "nil") => StepOK("start")

\* C12 witness: stop, remove, create, two attaches and a start that failed;
\* the workflow returned the new id.
C12_Witness ==
    /\ Len(steps) = 6
    /\ StepFailed("start")
    /\ RecOver
    /\ rec.ret.id # ""

\* C13: once the workflow is over after a successful create, an attach was
\* attempted for every network but the one of creation, whichever of them
\* failed, the start was attempted, and the error returned is nil or the
\* start error.
C13_AttachFailuresIgnored ==
    /\ (RecOver /\ StepOK("create"))
          => /\ Attached = rec.nets \ {rec.first}
             /\ StepsOf("start") # {}
             /\ rec.ret.err \in {"nil", "container created but failed to start"}
    /\ (rec.pc = "attach" /\ rec.left # {}) => StepsOf("start") = {}

\* C13 witness: the first of two attaches failed, the second was still made,
\* the start succeeded and the workflow returned no error.
C13_Witness ==
    /\ Len(steps) = 6
    /\ ~steps[4].ok
    /\ steps[5].step = "attach"
    /\ RecOver
    /\ rec.ret.err = "nil"

\* C14: the create carries one of the spec's networks, or none when the
\* spec has none; every attach is made after the successful create and
\* before the start, for a network of the spec other than that of creation,
\* and no network is attached twice; when the start is made every other
\* network has had its attach.
C14_OneAttachPerOtherNetwork ==
    /\ \A i \in StepsOf("create") :
          IF rec.nets = {} THEN steps[i].arg = "" ELSE steps[i].arg \in rec.nets
    /\ \A i \in StepsOf("attach") :
          /\ steps[i].arg \in rec.nets \ {rec.first}
          /\ \E j \in StepsOf("create") : j < i /\ steps[j].ok /\ steps[j].arg = rec.first
          /\ \A j \in StepsOf("start") : i < j
          /\ \A j \in StepsOf("attach") : j # i => steps[j].arg # steps[i].arg
    /\ StepsOf("start") # {} => Attached = rec.nets \ {rec.first}
    /\ rec.nets = {} => StepsOf("attach") = {}

\* C14 witness: a spec of three networks, one given to the create, the two
\* others attached, the start made.
C14_Witness ==
    /\ Cardinality(rec.nets) = 3
    /\ Cardinality(Attached) = 2
    /\ rec.first \notin Attached
    /\ StepsOf("start") # {}

(***************************************************************************)
(* Specifications.                                                         *)
(***************************************************************************)
(***************************************************************************)
(* The Input Router.  App.Update on a tea.KeyMsg offers the key to the     *)
(* visible modal, else to the filtering list of the current view, else to  *)
(* the global key bindings, else to the current view.  The lists are       *)
(* bubbles list.Model widgets; of a list the model keeps whether it is in  *)
(* list.Filtering state, and its cursor stays on the first row (the cursor *)
(* keys are not pressed), so the selected row is the first one.            *)
(***************************************************************************)
\* Keys pressed in one run.
MaxKeys == 4
\* *LoadedMsg events in one run.
MaxRefreshes == 2
\* Characters the filter input of a list takes (its CharLimit).
MaxFilterLen == 2
\* Variables the env vars editor holds at most.
MaxEnvVars == 1

\* The keys pressed (tea.KeyMsg.String()).
Keys == {"q", "?", "esc", "1", "2", "3", "4", "5", "6", "7", "tab",
         "shift+tab", "n", "enter", "u", "d", "p", "v", "/", "y", "a"}
\* Keys a focused text input takes as a character of its value.
CharKeys == {"q", "?", "1", "2", "3", "4", "5", "6", "7", "n", "u", "d",
             "p", "v", "/", "y", "a"}

\* The four consumers of a key.
ByModal == "modal"
ByFilter == "filter"
ByGlobal == "global"
ByView == "view"

\* A Command: the operation and its arguments.
Cmd(op, a, b) == [op |-> op, a |-> a, b |-> b]
Quit == Cmd("tea.Quit", "", "")
\* Commands that call the Resource Client or the Group Store to change a
\* resource, or that end the program.
Fetches == {"fetchContainers", "fetchImages", "loadGroups", "fetchVolumes",
            "fetchComposeProjects", "fetchNetworks", "loadContainerConfig"}
Operations(cs) == {c \in cs : c.op \notin Fetches}

\* A nil pointer, and a pointer to an element: cur says whether it points
\* into the slice the view holds now or into a slice it has replaced; val is
\* the element it points to.
Nil == [nil |-> TRUE, cur |-> FALSE, val |-> <<>>]
Ref(v) == [nil |-> FALSE, cur |-> TRUE, val |-> v]

\* The first row of a list (list.Index() = 0), as Get Selected* reads it.
First(items) == IF Len(items) = 0 THEN Nil ELSE Ref(items[1])

\* Resources the daemon and the store report.
ViewGroup(id, members) == [id |-> id, members |-> members]
\* A network as Client.ListNetworks returns it: the daemon's list does not
\* fill in the containers of a network.
Network(id, name, system) ==
    [id |-> id, name |-> name, system |-> system, containers |-> <<>>]
Service(name, containers) == [name |-> name, containers |-> containers]
Project(name, services) == [name |-> name, services |-> services]
\* models.Container.Networks of a listed container.
NetworksOf(c) == IF c = "c1" THEN {"net1"} ELSE {}

ContainerLists == {<<"c1", "c2">>, <<"c2", "c1">>, <<"c2">>, <<>>}
GroupLists ==
    {<<ViewGroup("g1", {"c1"}), ViewGroup("g2", {})>>,
     <<ViewGroup("g1", {"c1", "c2"}), ViewGroup("g2", {})>>,
     <<ViewGroup("g2", {}), ViewGroup("g1", {"c1"})>>,
     <<ViewGroup("g2", {})>>}
\* Network.IsSystemNetwork: by name.
NoSystemNetwork(n) == FALSE
IsSystemNetwork(n) == n.name = "bridge" \/ n.name = "host" \/ n.name = "none"
NetworkLists ==
    {<<Network("n1", "net1", FALSE), Network("n2", "net2", FALSE)>>,
     <<Network("n2", "net2", FALSE), Network("n1", "net1", FALSE)>>,
     <<Network("n2", "net2", FALSE)>>}
ProjectLists ==
    {<<Project("p1", <<Service("s1", <<"c1", "c2">>)>>), Project("p2", <<>>)>>,
     <<Project("p2", <<>>), Project("p1", <<Service("s1", <<"c1">>)>>)>>,
     <<Project("p2", <<>>), Project("p1", <<>>)>>,
     <<Project("p2", <<>>)>>}

NoModal == [type |-> "none", inputs |-> <<>>, focusIndex |-> 0]
\* components.NewConfirmModal
NewConfirmModal == [type |-> "confirm", inputs |-> <<>>, focusIndex |-> 0]
\* components.NewFormModal with n fields, all required, all empty; inputs[i]
\* says whether field i has a value.
NewFormModal(n) == [type |-> "form", inputs |-> [i \in 1..n |-> FALSE],
                    focusIndex |-> 0]

\* components.NewEnvEditor: list mode, n variables, nothing modified.
\* key says whether the key input has a value, focus which input is focused.
NewEnvEditor(n) == [mode |-> "list", n |-> n, key |-> FALSE, focus |-> "key"]

NoRoute == [n |-> 0, by |-> "", cmd |-> {}]
\* The filter of the containers list: the value of its FilterInput, as the
\* characters typed, and its filteredItems.
NoFilter == [value |-> <<>>, rows |-> <<>>]
\* models.Container.Name of the listed containers, which is the FilterValue
\* of their rows.
ContainerName(c) ==
    IF c = "c1" THEN <<"w", "e", "b">> ELSE <<"a", "p", "i">>
\* The default filter of list.Model, a fuzzy match on FilterValue: the
\* characters of the text occur in the name, in their order.  (Of the two
\* names only one has a character that a key of Keys types, so that a
\* filter with a text shows one row at most and the rank of the matches
\* does not matter.)
RECURSIVE Fuzzy(_, _)
Fuzzy(text, name) ==
    IF text = <<>> THEN TRUE
    ELSE IF name = <<>> THEN FALSE
    ELSE IF Head(text) = Head(name) THEN Fuzzy(Tail(text), Tail(name))
    ELSE Fuzzy(text, Tail(name))
FilterContainers(items, text) ==
    SelectSeq(items, LAMBDA c : Fuzzy(text, ContainerName(c)))
\* ContainersView.SetContainers: the slice and the rows are replaced.
\* list.SetItems drops the filteredItems of a list that is not unfiltered
\* and returns the Command that filters again, which SetContainers does
\* not pass on.
SetContainers(ls, items) ==
    [ls EXCEPT !.containers = items, !.filter.rows = <<>>]
\* The fetches whose reply the runs of this part reduce, how many of each
\* are in flight, and the GroupsLoadedMsg on their way to App.Update.
Replied == {"fetchContainers", "loadGroups", "fetchNetworks",
            "fetchComposeProjects"}
NoRefresh == [n |-> 0, pending |-> [op \in Replied |-> 0], msgs |-> {}]
\* No loadContainerConfig Command is in flight.
NoLoads == [c \in Containers |-> 0]

\* The state once the client is ready and the first lists are loaded.
InputInit ==
    /\ previousView = ViewContainers
    /\ modal = NoModal
    /\ pendingDelete = ""
    /\ pendingDeleteType = ""
    /\ filtering = {}
    /\ editor = NewEnvEditor(0)
    /\ lists = [containers |-> <<"c1", "c2">>, images |-> <<"i1">>,
                volumes |-> <<"v1">>, filter |-> NoFilter]
    /\ groupsView = [groups |-> <<ViewGroup("g1", {"c1"}), ViewGroup("g2", {})>>,
                     selectedGroup |-> Nil, currentTab |-> 0]
    /\ networksView =
          [networks |-> <<[Network("n1", "net1", FALSE)
                              EXCEPT !.containers = <<"c1">>],
                          Network("n2", "net2", FALSE)>>,
           allContainers |-> <<"c1", "c2">>,
           selectedNetwork |-> Nil, currentTab |-> 0]
    /\ composeView = [projects |-> <<Project("p1", <<Service("s1", <<"c1", "c2">>)>>),
                                     Project("p2", <<>>)>>,
                      selectedProject |-> Nil, selectedService |-> Nil,
                      viewingServices |-> FALSE, viewingContainers |-> FALSE,
                      filteringLists |-> {}]
    /\ cfgLoads = NoLoads
    /\ routed = NoRoute
    /\ refreshes = NoRefresh

\* The same with the daemon's default network "bridge" first in the list.
InputSystem ==
    /\ previousView = ViewContainers
    /\ modal = NoModal
    /\ pendingDelete = ""
    /\ pendingDeleteType = ""
    /\ filtering = {}
    /\ editor = NewEnvEditor(0)
    /\ lists = [containers |-> <<"c1", "c2">>, images |-> <<"i1">>,
                volumes |-> <<"v1">>, filter |-> NoFilter]
    /\ groupsView = [groups |-> <<ViewGroup("g1", {"c1"}), ViewGroup("g2", {})>>,
                     selectedGroup |-> Nil, currentTab |-> 0]
    /\ networksView =
          [networks |-> <<Network("n0", "bridge", TRUE),
                          [Network("n1", "net1", FALSE)
                              EXCEPT !.containers = <<"c1">>]>>,
           allContainers |-> <<"c1", "c2">>,
           selectedNetwork |-> Nil, currentTab |-> 0]
    /\ composeView = [projects |-> <<Project("p1", <<Service("s1", <<"c1", "c2">>)>>),
                                     Project("p2", <<>>)>>,
                      selectedProject |-> Nil, selectedService |-> Nil,
                      viewingServices |-> FALSE, viewingContainers |-> FALSE,
                      filteringLists |-> {}]
    /\ cfgLoads = NoLoads
    /\ routed = NoRoute
    /\ refreshes = NoRefresh

\* The fields App.Update reads and writes on a key, as one record.
Cur ==
    [view |-> currentView, prev |-> previousView, modal |-> modal,
     pd |-> pendingDelete, pdt |-> pendingDeleteType, filtering |-> filtering,
     editor |-> editor, modified |-> envModified, env |-> pendingEnv,
     gv |-> groupsView, nv |-> networksView, cv |-> composeView,
     containers |-> lists.containers, filter |-> lists.filter,
     images |-> lists.images,
     volumes |-> lists.volumes, running |-> running, err |-> errorMessage,
     timers |-> clearTimers, loads |-> cfgLoads]

\* What one consumer made of a key: the state it leaves, who it was and the
\* Commands App.Update returns.
Out(st, by, cmd) == [st |-> st, by |-> by, cmd |-> cmd]

\* Modal.Update on a key: the modal it leaves, with its visible and
\* confirmed flags.
AllFilled(m) == \A i \in 1..Len(m.inputs) : m.inputs[i]
ModalLeft(m, visible, confirmed) ==
    [m |-> m, visible |-> visible, confirmed |-> confirmed]
ModalUpdate(m, k) ==
    IF k = "enter" /\ (m.type = "confirm" \/ AllFilled(m))
    THEN ModalLeft(m, FALSE, TRUE)
    ELSE IF k = "y" /\ m.type = "confirm" THEN ModalLeft(m, FALSE, TRUE)
    ELSE IF k = "esc" THEN ModalLeft(m, FALSE, FALSE)
    ELSE IF k = "n" /\ m.type = "confirm" THEN ModalLeft(m, FALSE, FALSE)
    ELSE IF m.type # "form" THEN ModalLeft(m, TRUE, FALSE)
    ELSE LET n == Len(m.inputs)
             f == IF k = "tab" THEN (m.focusIndex + 1) % n
                  ELSE IF k = "shift+tab" THEN (m.focusIndex + n - 1) % n
                  ELSE m.focusIndex
             in == IF k \in CharKeys
                   THEN [m.inputs EXCEPT ![f + 1] = TRUE]
                   ELSE m.inputs
         IN ModalLeft([m EXCEPT !.focusIndex = f, !.inputs = in], TRUE, FALSE)

\* App.handleModalConfirmed: the Command of the pending operation kind; the
\* pending fields are cleared only when no Command is returned; the modal is
\* dropped by the deferred assignment either way.
ClearedModalOnly(st) == [st EXCEPT !.modal = NoModal]
Cleared(st) == [st EXCEPT !.modal = NoModal, !.pd = "", !.pdt = ""]
Issued(st, c) == Out([st EXCEPT !.modal = NoModal], ByModal, {c})
HandleModalConfirmed(st, m) ==
    IF st.pdt = "container"
    THEN Issued(st, Cmd("removeContainer", st.pd, ""))
    ELSE IF st.pdt = "image" THEN Issued(st, Cmd("removeImage", st.pd, ""))
    ELSE IF st.pdt = "group" THEN Issued(st, Cmd("deleteGroup", st.pd, ""))
    ELSE IF st.pdt = "remove_from_group" /\ ~st.gv.selectedGroup.nil
    THEN Issued(st, Cmd("removeContainerFromGroup",
                        st.gv.selectedGroup.val.id, st.pd))
    ELSE IF st.pdt = "create_group" /\ Len(m.inputs) >= 2
    THEN Issued(st, Cmd("createGroup", "name", "description"))
    ELSE IF st.pdt = "volume" THEN Issued(st, Cmd("removeVolume", st.pd, ""))
    ELSE IF st.pdt = "prune_volumes" THEN Issued(st, Cmd("pruneVolumes", "", ""))
    ELSE IF st.pdt = "pull_image" /\ Len(m.inputs) >= 1 /\ m.inputs[1]
    THEN Issued(st, Cmd("pullImage", "name", ""))
    ELSE IF st.pdt = "create_network" /\ Len(m.inputs) >= 1 /\ m.inputs[1]
    THEN Issued(st, Cmd("createNetwork", "name",
                        IF Len(m.inputs) >= 2 /\ m.inputs[2] THEN "driver"
                        ELSE "bridge"))
    ELSE IF st.pdt = "network" THEN Issued(st, Cmd("removeNetwork", st.pd, ""))
    ELSE IF st.pdt = "disconnect_from_network" /\ ~st.nv.selectedNetwork.nil
    THEN Issued(st, Cmd("disconnectContainerFromNetwork",
                        st.nv.selectedNetwork.val.id, st.pd))
    ELSE Out(Cleared(st), ByModal, {})

\* GroupsView: the rows of the "In Group" and "Available" tabs, and the
\* rows Get Selected* return.
ContainersInGroup(st) ==
    IF st.gv.selectedGroup.nil THEN <<>>
    ELSE SelectSeq(st.containers,
                   LAMBDA c : c \in st.gv.selectedGroup.val.members)
AvailableForGroup(st) ==
    IF st.gv.selectedGroup.nil THEN <<>>
    ELSE SelectSeq(st.containers,
                   LAMBDA c : c \notin st.gv.selectedGroup.val.members)
\* NetworksView: the same, by the network's name.
ContainersInNetwork(st) ==
    IF st.nv.selectedNetwork.nil THEN <<>>
    ELSE SelectSeq(st.containers,
                   LAMBDA c : st.nv.selectedNetwork.val.name \in NetworksOf(c))
AvailableForNetwork(st) ==
    IF st.nv.selectedNetwork.nil THEN <<>>
    ELSE SelectSeq(st.containers,
                   LAMBDA c : st.nv.selectedNetwork.val.name \notin NetworksOf(c))
\* ComposeView.GetSelectedService and GetSelectedContainer.
GetSelectedService(cv) ==
    IF cv.selectedProject.nil THEN Nil
    ELSE First(cv.selectedProject.val.services)
ComposeSelectedContainer(cv) ==
    IF cv.viewingContainers /\ ~cv.selectedService.nil
    THEN First(cv.selectedService.val.containers)
    ELSE LET service == GetSelectedService(cv)
         IN IF ~service.nil /\ Len(service.val.containers) = 1
            THEN Ref(service.val.containers[1])
            ELSE Nil

\* The list of the level the compose view shows.
ActiveList(cv) ==
    IF cv.viewingContainers THEN "containersList"
    ELSE IF cv.viewingServices THEN "servicesList"
    ELSE "projectsList"
\* ComposeView.IsFiltering: the list of the level shown is in Filtering
\* state (filteringLists holds the lists of the view that are).
ComposeIsFiltering(cv) == ActiveList(cv) \in cv.filteringLists
\* The views that are filtering, ViewCompose as its IsFiltering says.
AskCompose(filt, cv) ==
    IF ComposeIsFiltering(cv) THEN filt \cup {ViewCompose}
    ELSE filt \ {ViewCompose}

\* The rows of the active list of view w.
ActiveRows(st, w) ==
    IF w = ViewContainers THEN Len(st.containers)
    ELSE IF w = ViewImages THEN Len(st.images)
    ELSE IF w = ViewVolumes THEN Len(st.volumes)
    ELSE IF w = ViewGroups
    THEN IF st.gv.currentTab = 0 THEN Len(st.gv.groups)
         ELSE IF st.gv.currentTab = 1 THEN Len(ContainersInGroup(st))
         ELSE Len(AvailableForGroup(st))
    ELSE IF w = ViewNetworks
    THEN IF st.nv.currentTab = 0 THEN Len(st.nv.networks)
         ELSE IF st.nv.currentTab = 1 THEN Len(ContainersInNetwork(st))
         ELSE Len(AvailableForNetwork(st))
    ELSE IF w = ViewCompose
    THEN IF st.cv.viewingContainers /\ ~st.cv.selectedService.nil
         THEN Len(st.cv.selectedService.val.containers)
         ELSE IF st.cv.viewingServices /\ ~st.cv.selectedProject.nil
         THEN Len(st.cv.selectedProject.val.services)
         ELSE IF st.cv.viewingServices \/ st.cv.viewingContainers THEN 0
         ELSE Len(st.cv.projects)
    ELSE IF w = ViewEnvVars THEN st.editor.n
    ELSE 0

\* list.Model.Update on a key, for a list in Filtering state or not: "/"
\* opens the filter input of a list that has rows; while it is open "esc"
\* cancels it, "enter" and the tab keys accept it, and every other key is
\* typed into it.
ListKey(on, rows, k) ==
    IF on THEN k \notin {"esc", "enter", "tab", "shift+tab"}
    ELSE k = "/" /\ rows > 0
\* What the key does to the filter f of a list with the rows items.  In
\* Filtering state "esc" resets the filter, an accepting key resets it when
\* it has no text or shows no row and applies it otherwise, and a character
\* is added to the text, up to its limit, and the rows are filtered by the
\* new text.  Else "/" shows every row when there is no text, and "esc"
\* clears an applied filter.
FilterUpdate(f, items, on, k) ==
    IF on
    THEN IF k = "esc" THEN NoFilter
         ELSE IF k \in {"enter", "tab", "shift+tab"}
         THEN IF f.value = <<>> \/ f.rows = <<>> THEN NoFilter ELSE f
         ELSE IF Len(f.value) < MaxFilterLen
         THEN [value |-> Append(f.value, k),
               rows |-> FilterContainers(items, Append(f.value, k))]
         ELSE f
    ELSE IF k = "/" /\ Len(items) > 0
    THEN IF f.value = <<>> THEN [f EXCEPT !.rows = items] ELSE f
    ELSE IF k = "esc" THEN NoFilter
    ELSE f
\* The same for the active list of view w.
ListUpdate(st, w, k) ==
    [st EXCEPT !.filtering = IF ListKey(w \in st.filtering, ActiveRows(st, w), k)
                             THEN st.filtering \cup {w}
                             ELSE st.filtering \ {w},
               !.cv.filteringLists =
                   IF w # ViewCompose THEN @
                   ELSE IF ListKey(w \in st.filtering, ActiveRows(st, w), k)
                   THEN @ \cup {ActiveList(st.cv)}
                   ELSE @ \ {ActiveList(st.cv)},
               !.filter = IF w = ViewContainers
                          THEN FilterUpdate(@, st.containers,
                                            w \in st.filtering, k)
                          ELSE @]

\* (A router that lets the list of the current view see the keys the modal
\* leaves alone.)
ModalKeyThenView(st, k) ==
    LET r == ModalUpdate(st.modal, k)
    IN IF r.visible
       THEN Out(ListUpdate([st EXCEPT !.modal = r.m], st.view, k), ByModal, {})
       ELSE IF r.confirmed THEN HandleModalConfirmed(st, r.m)
       ELSE Out(Cleared(st), ByModal, {})
\* App.Update with a visible modal: the modal takes the key; a confirmation
\* is handled, a cancellation drops the modal and the pending fields.
ModalKey(st, k) ==
    LET r == ModalUpdate(st.modal, k)
    IN IF r.visible THEN Out([st EXCEPT !.modal = r.m], ByModal, {})
       ELSE IF r.confirmed THEN HandleModalConfirmed(st, r.m)
       ELSE Out(Cleared(st), ByModal, {})

\* SwitchTab of the groups and networks views: three tabs, wrapping around.
SwitchTab(tab, direction) ==
    LET newTab == tab + direction
    IN IF newTab < 0 THEN 2 ELSE IF newTab > 2 THEN 0 ELSE newTab

\* GroupsView.Update / NetworksView.Update on a key, the active list not
\* filtering: "a" and "d" switch tabs, "enter" on the list tab selects the
\* row and shows its containers, "esc" returns to the list tab, any other
\* key goes to the active list.
GroupsViewUpdate(st, k) ==
    IF k = "a" THEN [st EXCEPT !.gv.currentTab = SwitchTab(@, -1)]
    ELSE IF k = "d" THEN [st EXCEPT !.gv.currentTab = SwitchTab(@, 1)]
    ELSE IF k = "enter" /\ st.gv.currentTab = 0
    THEN LET sel == First(st.gv.groups)
         IN [st EXCEPT !.gv.selectedGroup = sel,
                       !.gv.currentTab = IF sel.nil THEN @ ELSE 1]
    ELSE IF k = "esc" /\ st.gv.currentTab # 0
    THEN [st EXCEPT !.gv.currentTab = 0]
    ELSE ListUpdate(st, ViewGroups, k)
NetworksViewUpdate(st, k) ==
    IF k = "a" THEN [st EXCEPT !.nv.currentTab = SwitchTab(@, -1)]
    ELSE IF k = "d" THEN [st EXCEPT !.nv.currentTab = SwitchTab(@, 1)]
    ELSE IF k = "enter" /\ st.nv.currentTab = 0
    THEN LET sel == First(st.nv.networks)
         IN [st EXCEPT !.nv.selectedNetwork = sel,
                       !.nv.currentTab = IF sel.nil THEN @ ELSE 1]
    ELSE IF k = "esc" /\ st.nv.currentTab # 0
    THEN [st EXCEPT !.nv.currentTab = 0]
    ELSE ListUpdate(st, ViewNetworks, k)

\* ComposeView.Update on a key, the active list not filtering: "enter"
\* drills down (project, then service, then the containers of a scaled
\* service), "esc" goes one level up, any other key goes to the active list.
ComposeLevel(cv, k) ==
    IF k = "enter" /\ cv.viewingContainers THEN cv
    ELSE IF k = "enter" /\ cv.viewingServices
    THEN LET sel == GetSelectedService(cv)
         IN [cv EXCEPT !.selectedService = sel,
                       !.viewingContainers =
                           ~sel.nil /\ Len(sel.val.containers) > 1]
    ELSE IF k = "enter"
    THEN LET sel == First(cv.projects)
         IN [cv EXCEPT !.selectedProject = sel,
                       !.viewingServices = ~sel.nil]
    ELSE IF k = "esc" /\ cv.viewingContainers
    THEN [cv EXCEPT !.viewingContainers = FALSE, !.selectedService = Nil]
    ELSE [cv EXCEPT !.viewingServices = FALSE, !.selectedProject = Nil]
\* The level shown after the key is the one whose list IsFiltering asks from
\* then on.
ComposeViewUpdate(st, k) ==
    IF \/ k = "enter"
       \/ k = "esc" /\ (st.cv.viewingContainers \/ st.cv.viewingServices)
    THEN [st EXCEPT !.cv = ComposeLevel(st.cv, k),
                    !.filtering = AskCompose(@, ComposeLevel(st.cv, k))]
    ELSE ListUpdate(st, ViewCompose, k)

\* EnvEditor.Update on a key.  List mode: "a" / "n" open the add form,
\* "enter" the edit form of the selected variable, "d" deletes it, any
\* other key goes to the list.  Add / edit mode: "esc" cancels, "enter"
\* saves when the key has a value, "tab" moves the focus, any other key
\* goes to the focused input.
EnvEditorUpdate(st, k) ==
    LET e == st.editor
    IN IF e.mode = "list"
       THEN IF k \in {"a", "n"}
            THEN [st EXCEPT !.editor = [e EXCEPT !.mode = "add", !.key = FALSE,
                                                 !.focus = "key"]]
            ELSE IF k = "enter"
            THEN IF e.n > 0
                 THEN [st EXCEPT !.editor = [e EXCEPT !.mode = "edit",
                                                      !.key = TRUE,
                                                      !.focus = "key"]]
                 ELSE st
            ELSE IF k = "d"
            THEN IF e.n > 0
                 THEN [st EXCEPT !.editor.n = @ - 1, !.modified = TRUE]
                 ELSE st
            ELSE ListUpdate(st, ViewEnvVars, k)
       ELSE IF k = "esc" THEN [st EXCEPT !.editor.mode = "list"]
       ELSE IF k = "enter"
       THEN IF e.key
            THEN [st EXCEPT !.editor.mode = "list",
                            !.editor.n = IF e.mode = "add" THEN @ + 1 ELSE @,
                            !.modified = TRUE]
            ELSE [st EXCEPT !.editor.mode = "list"]
       ELSE IF k = "tab"
       THEN [st EXCEPT !.editor.focus = IF @ = "key" THEN "value" ELSE "key"]
       ELSE IF k \in CharKeys /\ e.focus = "key"
       THEN [st EXCEPT !.editor.key = TRUE]
       ELSE st

\* Who takes a key the env vars editor receives: the filter input of its
\* list when the key reaches the list in Filtering state, else the editor.
EnvConsumer(st, k) ==
    IF /\ st.editor.mode = "list"
       /\ k \notin {"a", "n", "enter", "d"}
       /\ ViewEnvVars \in st.filtering
    THEN ByFilter
    ELSE ByView

\* "Delegate to current view": the Update of the current view.  The about
\* view ignores every message; the logs and stats views have no binding for
\* the keys pressed here.
ViewUpdate(st, k) ==
    IF st.view \in {ViewContainers, ViewImages, ViewVolumes}
    THEN ListUpdate(st, st.view, k)
    ELSE IF st.view = ViewGroups THEN GroupsViewUpdate(st, k)
    ELSE IF st.view = ViewNetworks THEN NetworksViewUpdate(st, k)
    ELSE IF st.view = ViewCompose THEN ComposeViewUpdate(st, k)
    ELSE IF st.view = ViewEnvVars THEN EnvEditorUpdate(st, k)
    ELSE st
ViewKey(st, k) ==
    Out(ViewUpdate(st, k),
        IF st.view = ViewEnvVars THEN EnvConsumer(st, k) ELSE ByView, {})

\* The filter check of App.Update: the views whose IsFiltering it asks.
FilterChecked == {ViewContainers, ViewImages, ViewGroups, ViewVolumes,
                  ViewCompose, ViewNetworks}
\* The key goes to the Update of the filtering view, which passes it to its
\* active list.
FilterKey(st, k) == Out(ListUpdate(st, st.view, k), ByFilter, {})

\* The Commands that fetch what view w shows.
Fetch(op) == Cmd(op, "", "")
FetchFor(w) ==
    IF w = ViewContainers THEN {Fetch("fetchContainers")}
    ELSE IF w = ViewImages THEN {Fetch("fetchImages")}
    ELSE IF w = ViewGroups THEN {Fetch("loadGroups")}
    ELSE IF w = ViewVolumes THEN {Fetch("fetchVolumes"), Fetch("fetchContainers")}
    ELSE IF w = ViewCompose THEN {Fetch("fetchComposeProjects")}
    ELSE IF w = ViewNetworks THEN {Fetch("fetchNetworks"), Fetch("fetchContainers")}
    ELSE {}

\* The order of the sidebar, which "tab" and "shift+tab" cycle through.
TabOrder == <<ViewContainers, ViewImages, ViewGroups, ViewVolumes,
              ViewCompose, ViewNetworks, ViewAbout>>
\* The view a number key shows.
NumberView(k) ==
    IF k = "1" THEN ViewContainers ELSE IF k = "2" THEN ViewImages
    ELSE IF k = "3" THEN ViewGroups ELSE IF k = "4" THEN ViewVolumes
    ELSE IF k = "5" THEN ViewCompose ELSE IF k = "6" THEN ViewNetworks
    ELSE ViewAbout

Goto(st, w) == [st EXCEPT !.prev = st.view, !.view = w]
\* App.cycleTabForward and App.cycleTabBackward.
\* cycleTabForward without the wrap.
ForwardStaysOnAbout(w) ==
    IF w = ViewContainers THEN ViewImages
    ELSE IF w = ViewImages THEN ViewGroups
    ELSE IF w = ViewGroups THEN ViewVolumes
    ELSE IF w = ViewVolumes THEN ViewCompose
    ELSE IF w = ViewCompose THEN ViewNetworks
    ELSE IF w = ViewNetworks THEN ViewAbout
    ELSE w
\* The switch of cycleTabForward: the view that follows w.
CycleTabForward(w) ==
    IF w = ViewContainers THEN ViewImages
    ELSE IF w = ViewImages THEN ViewGroups
    ELSE IF w = ViewGroups THEN ViewVolumes
    ELSE IF w = ViewVolumes THEN ViewCompose
    ELSE IF w = ViewCompose THEN ViewNetworks
    ELSE IF w = ViewNetworks THEN ViewAbout
    ELSE IF w = ViewAbout THEN ViewContainers
    ELSE w
\* The switch of cycleTabBackward: the view that precedes w.
CycleTabBackward(w) ==
    IF w = ViewContainers THEN ViewAbout
    ELSE IF w = ViewAbout THEN ViewNetworks
    ELSE IF w = ViewImages THEN ViewContainers
    ELSE IF w = ViewGroups THEN ViewImages
    ELSE IF w = ViewVolumes THEN ViewGroups
    ELSE IF w = ViewCompose THEN ViewVolumes
    ELSE IF w = ViewNetworks THEN ViewCompose
    ELSE w
CycleTab(st, direction) ==
    LET w == IF direction = 1 THEN CycleTabForward(st.view)
             ELSE CycleTabBackward(st.view)
    IN Out(Goto(st, w), ByGlobal, FetchFor(w))

\* A confirmation modal is opened for operation kind t on resource id.
OpenConfirm(st, id, t) ==
    Out([st EXCEPT !.modal = NewConfirmModal, !.pd = id, !.pdt = t],
        ByGlobal, {})
\* A form modal with n fields is opened for operation kind t.
OpenForm(st, n, t) ==
    Out([st EXCEPT !.modal = NewFormModal(n), !.pdt = t], ByGlobal, {})

\* list.Model.VisibleItems of the containers list: every row of an
\* unfiltered list, else the filteredItems.
VisibleContainers(on, ls) ==
    IF ~on /\ ls.filter.value = <<>> THEN ls.containers ELSE ls.filter.rows
\* ContainersView.GetSelectedContainer: list.SelectedItem(), the row of
\* the cursor among the visible ones.
ContainersViewSelected(on, ls) == First(VisibleContainers(on, ls))
\* The container the container bindings ("v", and "d" outside the list
\* tabs) act on in the current view: nil where the binding does not apply.
BoundContainer(st) ==
    IF st.view = ViewContainers
    THEN ContainersViewSelected(ViewContainers \in st.filtering,
                                [containers |-> st.containers,
                                 filter |-> st.filter])
    ELSE IF st.view = ViewGroups /\ st.gv.currentTab = 1
    THEN First(ContainersInGroup(st))
    ELSE IF st.view = ViewCompose
            /\ (st.cv.viewingServices \/ st.cv.viewingContainers)
    THEN ComposeSelectedContainer(st.cv)
    ELSE IF st.view = ViewNetworks /\ st.nv.currentTab = 1
    THEN First(ContainersInNetwork(st))
    ELSE Nil

\* "d": delete with confirmation.  The resource the modal is opened for is
\* the selected row of the current view and tab.
KeyDelete(st, k) ==
    LET c == BoundContainer(st)
    IN IF st.view = ViewContainers
       THEN IF ~c.nil THEN OpenConfirm(st, c.val, "container")
            ELSE ViewKey(st, k)
       ELSE IF st.view = ViewImages
       THEN IF Len(st.images) > 0 THEN OpenConfirm(st, st.images[1], "image")
            ELSE ViewKey(st, k)
       ELSE IF st.view = ViewGroups /\ st.gv.currentTab = 0
       THEN IF Len(st.gv.groups) > 0
            THEN OpenConfirm(st, st.gv.groups[1].id, "group")
            ELSE ViewKey(st, k)
       ELSE IF st.view = ViewGroups /\ st.gv.currentTab = 1
       THEN IF ~c.nil THEN OpenConfirm(st, c.val, "container")
            ELSE ViewKey(st, k)
       ELSE IF st.view = ViewVolumes
       THEN IF Len(st.volumes) > 0 THEN OpenConfirm(st, st.volumes[1], "volume")
            ELSE ViewKey(st, k)
       ELSE IF st.view = ViewCompose /\ st.cv.viewingContainers
       THEN IF ~c.nil THEN OpenConfirm(st, c.val, "container")
            ELSE ViewKey(st, k)
       ELSE IF st.view = ViewNetworks /\ st.nv.currentTab = 1
       THEN IF ~c.nil THEN OpenConfirm(st, c.val, "container")
            ELSE ViewKey(st, k)
       ELSE IF st.view = ViewNetworks /\ st.nv.currentTab = 0
       THEN IF Len(st.nv.networks) = 0 THEN ViewKey(st, k)
            ELSE IF IsSystemNetwork(st.nv.networks[1])
            THEN Out([st EXCEPT !.err = <<"Cannot delete system network">>,
                                !.timers = @ + 1],
                     ByGlobal, {})
            ELSE OpenConfirm(st, st.nv.networks[1].id, "network")
       ELSE ViewKey(st, k)

\* "esc": back.
KeyEsc(st, k) ==
    IF st.view = ViewAbout
    THEN Out([st EXCEPT !.view = st.prev], ByGlobal, {})
    ELSE IF st.view = ViewEnvVars
    THEN IF st.editor.mode # "list" THEN ViewKey(st, k)
         ELSE Out([st EXCEPT !.env = NoEnv, !.view = st.prev], ByGlobal, {})
    ELSE IF st.view = ViewCompose
            /\ (st.cv.viewingServices \/ st.cv.viewingContainers)
    THEN ViewKey(st, k)
    ELSE IF st.view # ViewContainers
    THEN Out(Goto(st, ViewContainers), ByGlobal, {})
    ELSE ViewKey(st, k)

\* The global key bindings of App.Update.  A binding that acts returns; a
\* key with no binding, or whose binding does not apply to the current view
\* and selection, goes on to the current view.
GlobalKey(st, k) ==
    IF k = "q"
    THEN IF st.view \in {ViewLogs, ViewStats, ViewAbout}
         THEN Out([st EXCEPT !.view = ViewContainers], ByGlobal, {})
         ELSE Out([st EXCEPT !.running = FALSE], ByGlobal, {Quit})
    ELSE IF k = "?" THEN Out(Goto(st, ViewAbout), ByGlobal, {})
    ELSE IF k = "esc" THEN KeyEsc(st, k)
    ELSE IF k \in {"1", "7"} THEN Out(Goto(st, NumberView(k)), ByGlobal, {})
    ELSE IF k \in {"2", "3", "4", "5", "6"}
    THEN Out(Goto(st, NumberView(k)), ByGlobal, FetchFor(NumberView(k)))
    ELSE IF k \in {"tab", "shift+tab"}
    THEN IF st.view \in {TabOrder[i] : i \in 1..Len(TabOrder)}
         THEN CycleTab(st, IF k = "tab" THEN 1 ELSE -1)
         ELSE ViewKey(st, k)
    ELSE IF k = "n"
    THEN IF st.view = ViewGroups /\ st.gv.currentTab = 0
         THEN OpenForm(st, 2, "create_group")
         ELSE IF st.view = ViewNetworks /\ st.nv.currentTab = 0
         THEN OpenForm(st, 2, "create_network")
         ELSE ViewKey(st, k)
    ELSE IF k = "enter"
    THEN IF st.view = ViewGroups /\ st.gv.currentTab = 2
         THEN IF AvailableForGroup(st) # <<>> /\ ~st.gv.selectedGroup.nil
              THEN Out(st, ByGlobal,
                       {Cmd("addContainerToGroup", st.gv.selectedGroup.val.id,
                            AvailableForGroup(st)[1])})
              ELSE Out(st, ByGlobal, {})
         ELSE IF st.view = ViewNetworks /\ st.nv.currentTab = 2
         THEN IF /\ AvailableForNetwork(st) # <<>>
                 /\ ~st.nv.selectedNetwork.nil
                 /\ ~IsSystemNetwork(st.nv.selectedNetwork.val)
              THEN Out(st, ByGlobal,
                       {Cmd("connectContainerToNetwork",
                            st.nv.selectedNetwork.val.id,
                            AvailableForNetwork(st)[1])})
              ELSE Out(st, ByGlobal, {})
         ELSE ViewKey(st, k)
    ELSE IF k = "u"
    THEN IF st.view = ViewGroups /\ st.gv.currentTab = 1
         THEN IF ContainersInGroup(st) # <<>> /\ ~st.gv.selectedGroup.nil
              THEN OpenConfirm(st, ContainersInGroup(st)[1], "remove_from_group")
              ELSE Out(st, ByGlobal, {})
         ELSE IF st.view = ViewNetworks /\ st.nv.currentTab = 1
         THEN IF ContainersInNetwork(st) # <<>> /\ ~st.nv.selectedNetwork.nil
              THEN OpenConfirm(st, ContainersInNetwork(st)[1],
                               "disconnect_from_network")
              ELSE Out(st, ByGlobal, {})
         ELSE ViewKey(st, k)
    ELSE IF k = "v"
    THEN IF ~BoundContainer(st).nil
         THEN Out([st EXCEPT !.loads[BoundContainer(st).val] = @ + 1],
                  ByGlobal,
                  {Cmd("loadContainerConfig", BoundContainer(st).val, "")})
         ELSE ViewKey(st, k)
    ELSE IF k = "d" THEN KeyDelete(st, k)
    ELSE IF k = "p"
    THEN IF st.view = ViewImages THEN OpenForm(st, 1, "pull_image")
         ELSE IF st.view = ViewVolumes
         THEN Out([st EXCEPT !.modal = NewConfirmModal,
                             !.pdt = "prune_volumes"], ByGlobal, {})
         ELSE ViewKey(st, k)
    ELSE ViewKey(st, k)

\* App.Update on a key: the visible modal first, then the filter check, then
\* the global bindings and the current view.
Route(st, k) ==
    IF st.modal.type # "none" THEN ModalKey(st, k)
    ELSE IF st.view \in FilterChecked /\ st.view \in st.filtering
    THEN FilterKey(st, k)
    ELSE GlobalKey(st, k)

\* A key is pressed: App.Update, case tea.KeyMsg.  KeyRouted is the
\* reduction; Key is the step of the Input Router part, where the Commands
\* returned are recorded in routed and not followed further.
KeyRouted(k) ==
    /\ running
    /\ routed.n < MaxKeys
    /\ ~(/\ modal.type = "none" /\ currentView = ViewEnvVars
         /\ editor.mode = "add" /\ editor.key /\ k = "enter"
         /\ editor.n >= MaxEnvVars)
    /\ \E r \in {Route(Cur, k)} :
          /\ currentView' = r.st.view
          /\ previousView' = r.st.prev
          /\ modal' = r.st.modal
          /\ pendingDelete' = r.st.pd
          /\ pendingDeleteType' = r.st.pdt
          /\ filtering' = r.st.filtering
          /\ lists' = [lists EXCEPT !.filter = r.st.filter]
          /\ editor' = r.st.editor
          /\ envModified' = r.st.modified
          /\ pendingEnv' = r.st.env
          /\ groupsView' = r.st.gv
          /\ networksView' = r.st.nv
          /\ composeView' = r.st.cv
          /\ running' = r.st.running
          /\ errorMessage' = r.st.err
          /\ clearTimers' = r.st.timers
          /\ cfgLoads' = r.st.loads
          /\ routed' = [n |-> routed.n + 1, by |-> r.by, cmd |-> r.cmd]
    /\ UNCHANGED <<statusMessage, logsView, statsView>>
\* Fetches in flight, of each kind no more than n: a run that reduces n
\* more replies does not tell more of them apart.
AtMost(pending, n) ==
    [op \in Replied |-> IF pending[op] > n THEN n ELSE pending[op]]
\* The runtime starts the Commands cs: the fetches among them are in flight.
Issue(r, cs) ==
    [r EXCEPT !.pending =
        AtMost([op \in Replied |->
                   IF Fetch(op) \in cs THEN r.pending[op] + 1
                   ELSE r.pending[op]],
               MaxRefreshes - r.n)]
Key(k) ==
    /\ KeyRouted(k)
    /\ refreshes' = Issue(refreshes, routed'.cmd)
    /\ UNCHANGED NotInput

\* App.Update, case ContainerConfigLoadedMsg, the result of a
\* loadContainerConfig Command for container c.  With an error the error
\* banner is set and a clearStatus tick returned.  Else the configuration
\* (its networks nets, n variables) is kept, the current view becomes the
\* previous one and the env vars view is shown with a new editor.  The case
\* does not look at the current view.
ContainerConfigLoadedMsg(c, nets, n, failed) ==
    /\ running
    /\ cfgLoads[c] > 0
    /\ cfgLoads' = [cfgLoads EXCEPT ![c] = @ - 1]
    /\ IF failed
       THEN /\ errorMessage' = <<"Failed to load container config: ",
                                 "daemon error">>
            /\ clearTimers' = clearTimers + 1
            /\ UNCHANGED <<pendingEnv, previousView, currentView, editor,
                           envModified, filtering>>
       ELSE /\ pendingEnv' = [has |-> TRUE, id |-> c, nets |-> nets]
            /\ previousView' = currentView
            /\ currentView' = ViewEnvVars
            /\ editor' = NewEnvEditor(n)
            /\ envModified' = FALSE
            /\ filtering' = filtering \ {ViewEnvVars}
            /\ UNCHANGED <<errorMessage, clearTimers>>
    /\ UNCHANGED <<statusMessage, running, logsView, statsView>>
    /\ UNCHANGED <<modal, pendingDelete, pendingDeleteType, lists, groupsView,
                   networksView, composeView, routed, refreshes>>
\* The case in the runs of the Input Router: the configuration has n
\* variables.
ConfigLoaded(c, n, failed) ==
    ContainerConfigLoadedMsg(c, {}, n, failed) /\ UNCHANGED NotInput
\* The case in the runs of the Recreate Workflow: the configuration names
\* the networks nets.
EnvLoaded(c, nets, failed) ==
    ContainerConfigLoadedMsg(c, nets, 0, failed) /\ UNCHANGED NotInput
\* "v" in the containers view: loadContainerConfig for the selected
\* container.
KeyEnvVars == currentView = ViewContainers /\ Key("v")
\* "esc" in the env vars view: the editor cancels its add / edit mode;
\* else the pending configuration is dropped and the previous view shown.
KeyEscEnv == currentView = ViewEnvVars /\ Key("esc")

\* The first element of items that Match accepts, as the range loops of
\* SetNetworks and SetProjects find it: a pointer into the new slice.
Resolve(items, Match(_)) ==
    IF \E i \in 1..Len(items) : Match(items[i])
    THEN Ref(items[CHOOSE i \in 1..Len(items) :
                       /\ Match(items[i])
                       /\ \A j \in 1..(i - 1) : ~Match(items[j])])
    ELSE Nil

\* GroupsView.SetGroups: the slice and the list rows are replaced;
\* selectedGroup is not touched and goes on pointing into the old slice.
SetGroups(gv, gs) ==
    [gv EXCEPT !.groups = gs,
               !.selectedGroup = IF @.nil THEN @ ELSE [@ EXCEPT !.cur = FALSE]]
\* NetworksView.syncNetworkContainerCounts: nothing when there are no
\* networks or no containers; else every network gets the IDs of the
\* containers that name it, and the selected network is looked up again.
SyncNetworkContainerCounts(nv) ==
    IF Len(nv.networks) = 0 \/ Len(nv.allContainers) = 0 THEN nv
    ELSE LET counted ==
                 [i \in 1..Len(nv.networks) |->
                     [nv.networks[i] EXCEPT !.containers =
                         SelectSeq(nv.allContainers,
                                   LAMBDA c : nv.networks[i].name \in NetworksOf(c))]]
         IN [nv EXCEPT !.networks = counted,
                       !.selectedNetwork =
                           IF @.nil THEN @
                           ELSE LET r == Resolve(counted,
                                        LAMBDA n : n.id = nv.selectedNetwork.val.id)
                                IN IF r.nil THEN @ ELSE r]
\* NetworksView.SetNetworks: the counts are synchronised, then the selected
\* network is looked up by ID in the new slice and becomes nil when it is
\* not there.
SetNetworks(nv, ns) ==
    LET synced == SyncNetworkContainerCounts([nv EXCEPT !.networks = ns])
    IN [synced EXCEPT
           !.selectedNetwork =
               IF @.nil THEN @
               ELSE Resolve(synced.networks,
                            LAMBDA n : n.id = synced.selectedNetwork.val.id)]
\* NetworksView.SetAllContainers.
SetAllContainers(nv, containers) ==
    SyncNetworkContainerCounts([nv EXCEPT !.allContainers = containers])
\* ComposeView.SetProjects: the selected project is looked up by name, then
\* the selected service by name among its services; a selection that is not
\* found becomes nil and the view leaves the levels below it.
SetProjects(cv, ps) ==
    IF cv.selectedProject.nil THEN [cv EXCEPT !.projects = ps]
    ELSE LET p == Resolve(ps, LAMBDA x : x.name = cv.selectedProject.val.name)
         IN IF p.nil
            THEN [cv EXCEPT !.projects = ps, !.selectedProject = Nil,
                            !.selectedService = Nil,
                            !.viewingServices = FALSE,
                            !.viewingContainers = FALSE]
            ELSE IF cv.selectedService.nil
            THEN [cv EXCEPT !.projects = ps, !.selectedProject = p]
            ELSE LET s == Resolve(p.val.services,
                                  LAMBDA x : x.name = cv.selectedService.val.name)
                 IN [cv EXCEPT !.projects = ps, !.selectedProject = p,
                               !.selectedService = s,
                               !.viewingContainers = IF s.nil THEN FALSE ELSE @]

\* tickRefresh fires and App.Update reduces its RefreshTickMsg: one new
\* tick in every branch; the fetches of the current view unless the client
\* is not ready or the view is filtering.
TickRearmedOnlyOnFetch(ready, view, filt) ==
    IF ~ready THEN [fetch |-> {}, tick |-> 0, skipped |-> FALSE]
    ELSE IF view \in FilterChecked /\ view \in filt
    THEN [fetch |-> {}, tick |-> 0, skipped |-> TRUE]
    ELSE [fetch |-> FetchFor(view), tick |-> 1, skipped |-> FALSE]
\* case RefreshTickMsg of App.Update: the Commands it returns in its three
\* branches (client not ready; current view filtering; otherwise the
\* fetches of the current view), each with one tickRefresh.
RefreshTickMsg(ready, view, filt) ==
    IF ~ready THEN [fetch |-> {}, tick |-> 1, skipped |-> FALSE]
    ELSE IF view \in FilterChecked /\ view \in filt
    THEN [fetch |-> {}, tick |-> 1, skipped |-> TRUE]
    ELSE [fetch |-> FetchFor(view), tick |-> 1, skipped |-> FALSE]
\* tickRefresh fires and App.Update reduces its RefreshTickMsg: the fetches
\* it returns are in flight.
RefreshFetch ==
    /\ running
    /\ LET r == RefreshTickMsg(TRUE, currentView, filtering)
       IN /\ Issue(refreshes, r.fetch) # refreshes
          /\ refreshes' = Issue(refreshes, r.fetch)
    /\ UNCHANGED appVars
    /\ UNCHANGED <<pendingEnv, envModified>>
    /\ UNCHANGED <<previousView, modal, pendingDelete, pendingDeleteType,
                   filtering, editor, lists, groupsView, networksView,
                   composeView, cfgLoads, routed>>
    /\ UNCHANGED NotInput

\* The Command op, which is in flight, returns and App.Update reduces its
\* message, in whatever view is shown and whether or not it is filtering.
Refreshing(op) ==
    /\ running
    /\ refreshes.n < MaxRefreshes
    /\ refreshes.pending[op] > 0
    /\ refreshes' = [refreshes EXCEPT
                         !.n = @ + 1,
                         !.pending = AtMost([@ EXCEPT ![op] = @ - 1],
                                            MaxRefreshes - (refreshes.n + 1))]
    /\ UNCHANGED appVars
    /\ UNCHANGED <<pendingEnv, envModified>>
    /\ UNCHANGED <<previousView, modal, pendingDelete, pendingDeleteType,
                   editor, cfgLoads, routed>>
    /\ UNCHANGED NotInput

\* App.Update, case ContainersLoadedMsg.
ContainersLoaded(items) ==
    /\ Refreshing("fetchContainers")
    /\ lists' = SetContainers(lists, items)
    /\ networksView' = SetAllContainers(networksView, items)
    /\ UNCHANGED <<groupsView, composeView, filtering>>
\* App.Update, case GroupsLoadedMsg.
GroupsLoaded(gs) ==
    /\ Refreshing("loadGroups")
    /\ groupsView' = SetGroups(groupsView, gs)
    /\ UNCHANGED <<lists, networksView, composeView, filtering>>
\* App.Update, case NetworksLoadedMsg.
NetworksLoaded(ns) ==
    /\ Refreshing("fetchNetworks")
    /\ networksView' = SetNetworks(networksView, ns)
    /\ UNCHANGED <<lists, groupsView, composeView, filtering>>
\* App.Update, case ComposeProjectsLoadedMsg: the view may show another
\* level afterwards, whose list is then the one asked whether it filters.
ComposeProjectsLoaded(ps) ==
    /\ Refreshing("fetchComposeProjects")
    /\ composeView' = SetProjects(composeView, ps)
    /\ filtering' = AskCompose(filtering, SetProjects(composeView, ps))
    /\ UNCHANGED <<lists, groupsView, networksView>>

\* GroupManager.GetAllGroups: a copy of the groups of the store.
GetAllGroups ==
    [i \in 1..glen |->
        ViewGroup(groups[i].id,
                  {groups[i].members[k] : k \in 1..Len(groups[i].members)})]
\* Presses of "3" in one run of the Batch Executor.
MaxGroupKeys == 2
\* "3": the current view becomes the previous one, the groups view is shown
\* and App.Update returns loadGroups.
KeyGroups == routed.n < MaxGroupKeys /\ Key("3")
\* The body of a loadGroups Command in flight: its message holds what
\* GetAllGroups returns.
LoadGroups ==
    /\ refreshes.pending["loadGroups"] > 0
    /\ refreshes' = [refreshes EXCEPT !.pending["loadGroups"] = @ - 1,
                                      !.msgs = @ \cup {GetAllGroups}]
    /\ UNCHANGED appVars
    /\ UNCHANGED <<pendingEnv, envModified>>
    /\ UNCHANGED <<previousView, modal, pendingDelete, pendingDeleteType,
                   filtering, editor, lists, groupsView, networksView,
                   composeView, cfgLoads, routed>>
    /\ UNCHANGED NotInput
\* App.Update, case GroupsLoadedMsg, the message being that of a loadGroups
\* Command whose body has run.
ReduceGroupsLoaded ==
    /\ running
    /\ refreshes.n < MaxRefreshes
    /\ \E gs \in refreshes.msgs :
          /\ groupsView' = SetGroups(groupsView, gs)
          /\ refreshes' = [refreshes EXCEPT
                              !.n = @ + 1,
                              !.pending = AtMost(@, MaxRefreshes
                                                    - (refreshes.n + 1)),
                              !.msgs = @ \ {gs}]
    /\ UNCHANGED appVars
    /\ UNCHANGED <<pendingEnv, envModified>>
    /\ UNCHANGED <<previousView, modal, pendingDelete, pendingDeleteType,
                   filtering, editor, lists, networksView, composeView,
                   cfgLoads, routed>>
    /\ UNCHANGED NotInput
\* The state of the router and of the views once NewGroupManager has loaded
\* the store and GroupManagerReadyMsg was reduced: the groups view shows
\* the groups of the store.
InputGroups ==
    /\ previousView = ViewContainers
    /\ modal = NoModal
    /\ pendingDelete = ""
    /\ pendingDeleteType = ""
    /\ filtering = {}
    /\ editor = NewEnvEditor(0)
    /\ lists = [containers |-> <<>>, images |-> <<>>, volumes |-> <<>>,
                filter |-> NoFilter]
    /\ groupsView = [groups |-> GetAllGroups, selectedGroup |-> Nil,
                     currentTab |-> 0]
    /\ networksView = [networks |-> <<>>, allContainers |-> <<>>,
                       selectedNetwork |-> Nil, currentTab |-> 0]
    /\ composeView = [projects |-> <<>>, selectedProject |-> Nil,
                      selectedService |-> Nil, viewingServices |-> FALSE,
                      viewingContainers |-> FALSE,
                      filteringLists |-> {}]
    /\ cfgLoads = NoLoads
    /\ routed = NoRoute
    /\ refreshes = NoRefresh

(***************************************************************************)
(* Properties of the Input Router.                                         *)
(***************************************************************************)
\* The last key was pressed with a modal visible and left it visible.
KeptModal == modal.type # "none" /\ routed.by = ByModal

\* C15: while a modal is visible, a key is consumed by the modal alone: the
\* step of the key changes neither the current view nor the previous one,
\* does not quit, leaves every view (tabs, selections, filter inputs, the
\* env vars editor) as it was, and returns no Command unless the key is one
\* that confirms ("enter" or "y").
C15_ModalOwnsKeys ==
    [][\A k \in Keys :
          (modal.type # "none" /\ Key(k))
              => /\ routed'.by = ByModal
                 /\ currentView' = currentView
                 /\ previousView' = previousView
                 /\ running'
                 /\ UNCHANGED <<filtering, editor, envModified, pendingEnv,
                                lists, groupsView, networksView, composeView,
                                cfgLoads>>
                 /\ routed'.cmd # {} => k \in {"enter", "y"}]_vars
\* A key other than a confirming or cancelling one was pressed on a
\* confirmation modal opened by "d" in the containers view.
C15_Witness ==
    /\ KeptModal
    /\ modal.type = "confirm"
    /\ pendingDeleteType = "container"
    /\ routed.n >= 2

\* The views that have an IsFiltering method.
FilterViews == FilterChecked \cup {ViewEnvVars}

\* C16: with no modal, a key pressed while the current view reports filter
\* mode (containers, images, groups, volumes, compose, networks, env vars)
\* goes to the filter input of that view: the step quits nothing, keeps the
\* current and the previous view, opens no modal and returns no Command.
C16_FilterOwnsKeys ==
    [][\A k \in Keys :
          (/\ modal.type = "none"
           /\ currentView \in FilterViews
           /\ currentView \in filtering
           /\ Key(k))
              => /\ routed'.by = ByFilter
                 /\ running'
                 /\ currentView' = currentView
                 /\ previousView' = previousView
                 /\ modal' = NoModal
                 /\ routed'.cmd = {}]_vars

\* What the handlers of the views write, and what the global bindings write
\* besides the modal they open.
ViewPart == <<filtering, editor, envModified, groupsView, networksView,
              composeView>>
GlobalPart == <<currentView, previousView, running, pendingEnv, cfgLoads,
                errorMessage, clearTimers>>
ModalPart == <<modal, pendingDelete, pendingDeleteType>>

\* C17: a key has one consumer, the first in the order modal, filter input,
\* global binding, view.  With a modal visible only the modal and the
\* pending fields change; else, with the current view filtering, only its
\* filter input changes and no Command is returned; else either a global
\* binding acts and no view changes, or the view takes the key and nothing
\* else changes and no Command is returned.
C17_OneConsumerByPriority ==
    [][\A k \in Keys :
          Key(k) =>
              IF modal.type # "none"
              THEN /\ routed'.by = ByModal
                   /\ UNCHANGED <<ViewPart, GlobalPart>>
              ELSE IF currentView \in FilterViews /\ currentView \in filtering
              THEN /\ routed'.by = ByFilter
                   /\ UNCHANGED <<editor, envModified, groupsView,
                                  networksView, composeView>>
                   /\ UNCHANGED <<GlobalPart, ModalPart>>
                   /\ routed'.cmd = {}
              ELSE \/ /\ routed'.by = ByGlobal
                      /\ UNCHANGED ViewPart
                   \/ /\ routed'.by = ByView
                      /\ UNCHANGED <<GlobalPart, ModalPart>>
                      /\ routed'.cmd = {}]_vars

\* The operation kinds of the delete confirmations ("d").
DeleteKinds == {"container", "image", "group", "volume", "network"}

\* C18: "esc" or "n" on a delete confirmation modal removes the modal,
\* clears pendingDelete and pendingDeleteType, returns no Command, and
\* leaves the current view, the views and every resource collection (the
\* loaded lists and the Group Store) as they were.
C18_CancelClearsPending ==
    [][(/\ modal.type = "confirm"
        /\ pendingDeleteType \in DeleteKinds
        /\ Key("esc") \/ Key("n"))
          => /\ modal' = NoModal
             /\ pendingDelete' = ""
             /\ pendingDeleteType' = ""
             /\ routed'.cmd = {}
             /\ running'
             /\ currentView' = currentView
             /\ UNCHANGED <<previousView, lists, groupsView, networksView,
                            composeView, storeVars>>]_vars
\* A delete confirmation opened by "d" in the containers view was cancelled:
\* in that view the modal takes a key without a Command only on a cancel.
C18_Witness ==
    /\ modal = NoModal
    /\ routed.by = ByModal
    /\ routed.cmd = {}
    /\ routed.n = 2
    /\ currentView = ViewContainers
    /\ pendingDelete = ""

\* The key confirms the visible modal.
Confirms(k) ==
    \/ modal.type = "confirm" /\ k \in {"enter", "y"}
    \/ modal.type = "form" /\ k = "enter" /\ AllFilled(modal)
\* The Command of each pending operation kind, and where it carries the id
\* of the resource the modal was opened for.
OpOf(t) ==
    IF t = "container" THEN "removeContainer"
    ELSE IF t = "image" THEN "removeImage"
    ELSE IF t = "group" THEN "deleteGroup"
    ELSE IF t = "remove_from_group" THEN "removeContainerFromGroup"
    ELSE IF t = "create_group" THEN "createGroup"
    ELSE IF t = "volume" THEN "removeVolume"
    ELSE IF t = "prune_volumes" THEN "pruneVolumes"
    ELSE IF t = "pull_image" THEN "pullImage"
    ELSE IF t = "create_network" THEN "createNetwork"
    ELSE IF t = "network" THEN "removeNetwork"
    ELSE "disconnectContainerFromNetwork"
Targets(c, t, id) ==
    IF t \in DeleteKinds THEN c.a = id
    ELSE IF t \in {"remove_from_group", "disconnect_from_network"} THEN c.b = id
    ELSE TRUE

\* C19: the key that confirms the visible modal returns exactly one Command,
\* the one of the pending operation kind, for the resource id the modal was
\* opened for, and the modal is dropped.  The id is the one selected when
\* the modal was opened: "d" in the containers view stores the id of the
\* selected container, and no step that keeps the modal open (a key the
\* modal keeps, a refresh of the lists) changes the pending fields.
C19_ConfirmIssuesPendingCommand ==
    [][/\ \A k \in Keys :
            (modal.type # "none" /\ Confirms(k) /\ Key(k))
                => /\ modal' = NoModal
                   /\ \E c \in routed'.cmd :
                         /\ routed'.cmd = {c}
                         /\ c.op = OpOf(pendingDeleteType)
                         /\ Targets(c, pendingDeleteType, pendingDelete)
       /\ (modal.type # "none" /\ modal'.type # "none")
              => UNCHANGED <<pendingDelete, pendingDeleteType>>
       /\ (/\ modal.type = "none" /\ currentView = ViewContainers
           /\ modal'.type = "confirm")
              => pendingDelete' = BoundContainer(Cur).val]_vars

\* After a refresh with the new parent collection items, the pointer sel'
\* to the selected parent, which was sel before: nil when no element has
\* the key of sel's parent, else a pointer to the first such element of the
\* new collection.
Rebound(sel, items, Key0(_)) ==
    IF \E i \in 1..Len(items) : Key0(items[i]) = Key0(sel.val)
    THEN \E i \in 1..Len(items) :
            /\ Key0(items[i]) = Key0(sel.val)
            /\ sel' = Ref(items[i])
    ELSE sel'.nil
GroupKey(g) == g.id
NetworkKey(n) == n.id
ProjectKey(p) == p.name

\* C20: when the parent collection of a tab-structured view is refreshed
\* while a parent is selected: if the new collection has no parent with the
\* selected one's id (groups, networks) or name (compose), the selection
\* becomes nil and the rows that depend on it are empty; if it has one, the
\* selection points to that element of the new collection.
C20_SelectionFollowsRefresh ==
    [][/\ \A gs \in GroupLists :
            (GroupsLoaded(gs) /\ ~groupsView.selectedGroup.nil)
                => /\ Rebound(groupsView.selectedGroup, gs, GroupKey)
                   /\ groupsView'.selectedGroup.nil
                          => /\ ContainersInGroup(Cur') = <<>>
                             /\ AvailableForGroup(Cur') = <<>>
       /\ \A ns \in NetworkLists :
            (NetworksLoaded(ns) /\ ~networksView.selectedNetwork.nil)
                => /\ Rebound(networksView.selectedNetwork, ns, NetworkKey)
                   /\ networksView'.selectedNetwork.nil
                          => /\ ContainersInNetwork(Cur') = <<>>
                             /\ AvailableForNetwork(Cur') = <<>>
       /\ \A ps \in ProjectLists :
            (ComposeProjectsLoaded(ps) /\ ~composeView.selectedProject.nil)
                => /\ Rebound(composeView.selectedProject, ps, ProjectKey)
                   /\ composeView'.selectedProject.nil
                          => /\ composeView'.selectedService.nil
                             /\ ~composeView'.viewingServices
                             /\ ~composeView'.viewingContainers
                             /\ ComposeSelectedContainer(composeView').nil]_vars

MainViews == {TabOrder[i] : i \in 1..Len(TabOrder)}
\* A step in which the global switch took key k in a main view.
GlobalStep(k) ==
    /\ modal.type = "none" /\ currentView \in MainViews
    /\ routed'.by = ByGlobal
    /\ Key(k)
\* A step in which the current view, w, took key k itself.
ViewStep(k, w) ==
    /\ modal.type = "none" /\ currentView = w /\ routed'.by = ByView
    /\ Key(k)

\* C21: tab cycling wraps. "tab" on About shows Containers and "shift+tab"
\* on Containers shows About; on each of the seven main views cycling
\* backward undoes cycling forward and the other way round; in the groups
\* and networks views SwitchTab(+1) ("d") on the last tab shows the first
\* and SwitchTab(-1) ("a") on the first shows the last.
C21_TabCyclingWraps ==
    [][/\ GlobalStep("tab")
            => /\ currentView = ViewAbout => currentView' = ViewContainers
               /\ currentView' \in MainViews
               /\ CycleTab(Cur', -1).st.view = currentView
       /\ GlobalStep("shift+tab")
            => /\ currentView = ViewContainers => currentView' = ViewAbout
               /\ currentView' \in MainViews
               /\ CycleTab(Cur', 1).st.view = currentView
       /\ ViewStep("d", ViewGroups)
            => (groupsView.currentTab = 2 => groupsView'.currentTab = 0)
       /\ ViewStep("a", ViewGroups)
            => (groupsView.currentTab = 0 => groupsView'.currentTab = 2)
       /\ ViewStep("d", ViewNetworks)
            => (networksView.currentTab = 2 => networksView'.currentTab = 0)
       /\ ViewStep("a", ViewNetworks)
            => (networksView.currentTab = 0 => networksView'.currentTab = 2)]_vars
C21_Witness ==
    /\ routed.n = 4 /\ routed.by = ByGlobal
    /\ currentView = ViewContainers /\ previousView = ViewAbout
    /\ groupsView.currentTab = 2

(***************************************************************************)
(* The Event Loop: startup, the Commands in flight and the reduction of    *)
(* their result Events, and the refresh tick.                              *)
(***************************************************************************)
\* Refresh ticks reduced in one run.
MaxTicks == 2
\* Presses of "s", "x" and "r" in one run; they count as keys of the run.
MaxMutations == 2
\* Keys pressed in one run that starts with App.Init.
MaxLoopKeys == 3
\* The keys pressed in the runs of this part.
LoopKeys == {"q", "4", "p", "y", "/"}
\* The keys pressed in the runs where the user changes resources.
MutateKeys == {"2", "4", "6", "d", "y", "enter", "a", "u", "p"}

\* What the daemon and the store hold: every successful fetch returns it.
Daemon ==
    [containers |-> <<"c1", "c2">>, images |-> <<"i1">>, volumes |-> <<"v1">>,
     groups |-> <<ViewGroup("g1", {"c1"}), ViewGroup("g2", {})>>,
     networks |-> <<Network("n1", "net1", FALSE), Network("n2", "net2", FALSE)>>,
     projects |-> <<Project("p1", <<Service("s1", <<"c1", "c2">>)>>),
                    Project("p2", <<>>)>>]

\* The other parts start where startup went well and nothing is in flight.
LoopIdle ==
    /\ docker = "ready"
    /\ groupManager = "ready"
    /\ cmds = EmptyBag
    /\ issued = [ticks |-> 0, keys |-> 0, overlap |-> FALSE,
                 skipped |-> FALSE]
    /\ ticks = 1
    /\ crashed = FALSE

\* A Command in flight: the Command with the clients its constructor got.
Started(c, d, gm) ==
    [op |-> c.op, a |-> c.a, b |-> c.b, client |-> d, gm |-> gm]
Launch(cs, d, gm) == SetToBag({Started(c, d, gm) : c \in cs \ {Quit}})
\* The Commands in flight, and those but one run of c.
Commands == BagToSet(cmds)
Others(c) == cmds (-) SetToBag({c})

\* App.Init: the Commands of the first batch are in flight, one refresh
\* tick is armed, the clients are nil and every view is empty.
LoopInit ==
    /\ docker = "nil"
    /\ groupManager = "nil"
    /\ cmds = Launch({Cmd("initDockerClient", "", ""),
                      Cmd("initGroupManager", "", "")}, "nil", "nil")
    /\ issued = [ticks |-> 0, keys |-> 0, overlap |-> FALSE,
                 skipped |-> FALSE]
    /\ ticks = 1
    /\ crashed = FALSE
\* New: the state of the router and of the views before anything is loaded.
InputNew ==
    /\ previousView = ViewContainers
    /\ modal = NoModal
    /\ pendingDelete = ""
    /\ pendingDeleteType = ""
    /\ filtering = {}
    /\ editor = NewEnvEditor(0)
    /\ lists = [containers |-> <<>>, images |-> <<>>, volumes |-> <<>>,
                filter |-> NoFilter]
    /\ groupsView = [groups |-> <<>>, selectedGroup |-> Nil, currentTab |-> 0]
    /\ networksView = [networks |-> <<>>, allContainers |-> <<>>,
                       selectedNetwork |-> Nil, currentTab |-> 0]
    /\ composeView = [projects |-> <<>>, selectedProject |-> Nil,
                      selectedService |-> Nil, viewingServices |-> FALSE,
                      viewingContainers |-> FALSE,
                      filteringLists |-> {}]
    /\ cfgLoads = NoLoads
    /\ routed = NoRoute
    /\ refreshes = NoRefresh

\* The Commands whose body returns nil when its client (fetch*) or its
\* manager (loadGroups) is nil, and those that return an ErrorMsg then.
NilGuarded == {"fetchContainers", "fetchImages", "fetchVolumes",
               "fetchComposeProjects", "fetchNetworks", "loadGroups"}
NilReported == {"loadContainerConfig", "deleteGroup", "createGroup"}
StoreCommands == {"loadGroups", "deleteGroup", "createGroup",
                  "addContainerToGroup", "removeContainerFromGroup"}
Startup == {"initDockerClient", "initGroupManager"}
\* The client or manager the body of Command c calls.
Handle(c) == IF c.op \in StoreCommands THEN c.gm ELSE c.client
\* The body of c calls a method on a nil *docker.Client or nil
\* *config.GroupManager, which reads a field of the receiver.
Panics(c) ==
    /\ c.op \notin Startup
    /\ Handle(c) = "nil"
    /\ c.op \notin NilGuarded \cup NilReported

\* The messages.
NoMsg == [type |-> "nil"]
ErrorMsg(text) == [type |-> "ErrorMsg", text |-> text]
StatusMsg(text) == [type |-> "StatusMsg", text |-> text]
Loaded(type, items) == [type |-> type, items |-> items]
Result(type, c, failed) ==
    [type |-> type, a |-> c.a, b |-> c.b, err |-> failed]

\* The message of each Command that reports its error in its own message.
ResultType(op) ==
    IF op = "startContainer" THEN "ContainerStartedMsg"
    ELSE IF op = "stopContainer" THEN "ContainerStoppedMsg"
    ELSE IF op = "restartContainer" THEN "ContainerRestartedMsg"
    ELSE IF op = "removeContainer" THEN "ContainerRemovedMsg"
    ELSE IF op = "removeImage" THEN "ImageRemovedMsg"
    ELSE IF op = "removeVolume" THEN "VolumeRemovedMsg"
    ELSE IF op = "pullImage" THEN "ImagePullCompletedMsg"
    ELSE IF op = "connectContainerToNetwork"
    THEN "ContainerConnectedToNetworkMsg"
    ELSE IF op = "disconnectContainerFromNetwork"
    THEN "ContainerDisconnectedFromNetworkMsg"
    ELSE IF op = "createNetwork" THEN "NetworkCreatedMsg"
    ELSE IF op = "removeNetwork" THEN "NetworkRemovedMsg"
    ELSE IF op = "addContainerToGroup" THEN "ContainerAddedToGroupMsg"
    ELSE IF op = "removeContainerFromGroup"
    THEN "ContainerRemovedFromGroupMsg"
    ELSE ""
LoadedType(op) ==
    IF op = "fetchContainers" THEN "ContainersLoadedMsg"
    ELSE IF op = "fetchImages" THEN "ImagesLoadedMsg"
    ELSE IF op = "fetchVolumes" THEN "VolumesLoadedMsg"
    ELSE IF op = "fetchComposeProjects" THEN "ComposeProjectsLoadedMsg"
    ELSE IF op = "fetchNetworks" THEN "NetworksLoadedMsg"
    ELSE "GroupsLoadedMsg"
Fetched(op) ==
    IF op = "fetchContainers" THEN Daemon.containers
    ELSE IF op = "fetchImages" THEN Daemon.images
    ELSE IF op = "fetchVolumes" THEN Daemon.volumes
    ELSE IF op = "fetchComposeProjects" THEN Daemon.projects
    ELSE IF op = "fetchNetworks" THEN Daemon.networks
    ELSE Daemon.groups

\* The message the body of Command c returns when it does not panic; ok
\* says whether the call it makes succeeds.
Returns(c, ok) ==
    IF c.op = "initDockerClient"
    THEN IF ok THEN [type |-> "DockerClientReadyMsg"]
         ELSE ErrorMsg("failed to initialize Docker client")
    ELSE IF c.op = "initGroupManager"
    THEN IF ok THEN Loaded("GroupManagerReadyMsg", Daemon.groups)
         ELSE ErrorMsg("failed to load groups")
    ELSE IF c.op \in NilGuarded
    THEN IF Handle(c) = "nil" THEN NoMsg
         ELSE IF ok \/ c.op = "loadGroups"
         THEN Loaded(LoadedType(c.op), Fetched(c.op))
         ELSE ErrorMsg("daemon error")
    ELSE IF c.op \in {"deleteGroup", "createGroup"}
    THEN IF Handle(c) = "nil" THEN ErrorMsg("group manager not initialized")
         ELSE IF ~ok
         THEN ErrorMsg(IF c.op = "deleteGroup" THEN "failed to delete group"
                       ELSE "failed to create group")
         ELSE IF c.op = "deleteGroup"
         THEN StatusMsg("Group deleted successfully")
         ELSE [type |-> "GroupCreatedMsg"]
    ELSE IF c.op = "pruneVolumes"
    THEN IF ok THEN StatusMsg("Unused volumes pruned successfully")
         ELSE ErrorMsg("daemon error")
    ELSE IF c.op = "loadContainerConfig"
    THEN IF Handle(c) = "nil" THEN ErrorMsg("docker client not initialized")
         ELSE Result("ContainerConfigLoadedMsg", c, ~ok)
    ELSE Result(ResultType(c.op), c, ~ok)

\* The messages whose case of App.Update sets one of the two banners from
\* msg.err and returns fetches with a clearStatus tick.  App.Update has no
\* case for ContainerRemovedMsg: it goes to the current view, which has
\* none either.
ResultTypes ==
    {"ContainerStartedMsg", "ContainerStoppedMsg", "ContainerRestartedMsg",
     "ImageRemovedMsg", "VolumeRemovedMsg", "ImagePullCompletedMsg", "ContainerConnectedToNetworkMsg",
     "ContainerDisconnectedFromNetworkMsg", "NetworkCreatedMsg",
     "NetworkRemovedMsg", "ContainerAddedToGroupMsg",
     "ContainerRemovedFromGroupMsg"}
FailText(type) ==
    IF type = "ContainerStartedMsg" THEN "Failed to start container: "
    ELSE IF type = "ContainerStoppedMsg" THEN "Failed to stop container: "
    ELSE IF type = "ContainerRestartedMsg" THEN "Failed to restart container: "
    ELSE IF type = "ImageRemovedMsg" THEN "Failed to remove image: "
    ELSE IF type = "VolumeRemovedMsg" THEN "Failed to remove volume: "
    ELSE IF type = "ImagePullCompletedMsg" THEN "Failed to pull image: "
    ELSE IF type = "ContainerConnectedToNetworkMsg"
    THEN "Failed to connect container: "
    ELSE IF type = "ContainerDisconnectedFromNetworkMsg"
    THEN "Failed to disconnect container: "
    ELSE IF type = "NetworkCreatedMsg" THEN "Failed to create network: "
    ELSE IF type = "NetworkRemovedMsg" THEN "Failed to remove network: "
    ELSE IF type = "ContainerAddedToGroupMsg" THEN "Failed to add container: "
    ELSE "Failed to remove container: "
OkText(type) ==
    IF type = "ContainerStartedMsg" THEN "Container started"
    ELSE IF type = "ContainerStoppedMsg" THEN "Container stopped"
    ELSE IF type = "ContainerRestartedMsg" THEN "Container restarted"
    ELSE IF type = "ImageRemovedMsg" THEN "Image removed"
    ELSE IF type = "VolumeRemovedMsg" THEN "Volume removed"
    ELSE IF type = "ImagePullCompletedMsg" THEN "Image pulled successfully"
    ELSE IF type = "ContainerConnectedToNetworkMsg"
    THEN "Container connected to network"
    ELSE IF type = "ContainerDisconnectedFromNetworkMsg"
    THEN "Container disconnected from network"
    ELSE IF type = "NetworkCreatedMsg" THEN "Network created"
    ELSE IF type = "NetworkRemovedMsg" THEN "Network removed"
    ELSE IF type = "ContainerAddedToGroupMsg" THEN "Container added to group"
    ELSE "Container removed from group"
\* The fetches the case of message type returns.
Follow(type) ==
    IF type \in {"DockerClientReadyMsg", "ContainerStartedMsg",
                 "ContainerStoppedMsg", "ContainerRestartedMsg"}
    THEN {Fetch("fetchContainers")}
    ELSE IF type \in {"ImageRemovedMsg", "ImagePullCompletedMsg"}
    THEN {Fetch("fetchImages")}
    ELSE IF type = "VolumeRemovedMsg" THEN {Fetch("fetchVolumes")}
    ELSE IF type \in {"ContainerAddedToGroupMsg", "ContainerRemovedFromGroupMsg"}
    THEN {Fetch("loadGroups"), Fetch("fetchContainers")}
    ELSE IF type \in {"ContainerConnectedToNetworkMsg",
                      "ContainerDisconnectedFromNetworkMsg"}
    THEN {Fetch("fetchNetworks"), Fetch("fetchContainers")}
    ELSE IF type \in {"NetworkCreatedMsg", "NetworkRemovedMsg"}
    THEN {Fetch("fetchNetworks")}
    ELSE IF type = "GroupCreatedMsg" THEN {Fetch("loadGroups")}
    ELSE {}
\* The messages whose case returns a clearStatus tick.
Banners == ResultTypes \cup {"ErrorMsg", "StatusMsg", "GroupCreatedMsg"}

\* App.Update on message m, the Commands rest being in flight.
UpdateMsg(m, rest) ==
    LET d == IF m.type = "DockerClientReadyMsg" THEN "ready" ELSE docker
        gm == IF m.type = "GroupManagerReadyMsg" THEN "ready" ELSE groupManager
    IN /\ docker' = d
       /\ groupManager' = gm
       /\ errorMessage' =
            IF m.type = "ErrorMsg" THEN <<m.text>>
            ELSE IF m.type \in ResultTypes /\ m.err
            THEN <<FailText(m.type), "daemon error">>
            ELSE errorMessage
       /\ statusMessage' =
            IF m.type \in {"StatusMsg"} THEN m.text
            ELSE IF m.type = "GroupCreatedMsg"
            THEN "Group created successfully"
            ELSE IF m.type \in ResultTypes /\ ~m.err THEN OkText(m.type)
            ELSE statusMessage
       /\ clearTimers' = IF m.type \in Banners THEN clearTimers + 1
                         ELSE clearTimers
       /\ lists' =
            IF m.type = "ContainersLoadedMsg"
            THEN SetContainers(lists, m.items)
            ELSE IF m.type = "ImagesLoadedMsg"
            THEN [lists EXCEPT !.images = m.items]
            ELSE IF m.type = "VolumesLoadedMsg"
            THEN [lists EXCEPT !.volumes = m.items]
            ELSE lists
       /\ groupsView' =
            IF m.type \in {"GroupManagerReadyMsg", "GroupsLoadedMsg"}
            THEN SetGroups(groupsView, m.items)
            ELSE groupsView
       /\ networksView' =
            IF m.type = "NetworksLoadedMsg"
            THEN SetNetworks(networksView, m.items)
            ELSE IF m.type = "ContainersLoadedMsg"
            THEN SetAllContainers(networksView, m.items)
            ELSE networksView
       /\ composeView' =
            IF m.type = "ComposeProjectsLoadedMsg"
            THEN SetProjects(composeView, m.items)
            ELSE composeView
       /\ cmds' = rest (+) Launch(Follow(m.type), d, gm)
       /\ UNCHANGED <<currentView, running, logsView, statsView>>
       /\ filtering' =
            IF m.type = "ComposeProjectsLoadedMsg"
            THEN AskCompose(filtering, SetProjects(composeView, m.items))
            ELSE filtering
       /\ UNCHANGED <<previousView, modal, pendingDelete, pendingDeleteType,
                      editor, cfgLoads, routed, refreshes>>
       /\ UNCHANGED <<pendingEnv, envModified, issued, ticks, crashed>>

\* The body of Command c runs to its end on its goroutine: it panics, or
\* it returns nil, or it returns a message, which App.Update reduces.
Complete(c, ok) ==
    /\ running /\ ~crashed
    /\ c \in Commands
    /\ IF Panics(c)
       THEN /\ crashed' = TRUE
            /\ cmds' = Others(c)
            /\ UNCHANGED <<appVars, inputVars, pendingEnv, envModified>>
            /\ UNCHANGED <<docker, groupManager, issued, ticks>>
       ELSE UpdateMsg(Returns(c, ok), Others(c))
    /\ UNCHANGED NotLoop

\* A key of LoopKeys is pressed: the reduction of the Input Router, whose
\* Commands the runtime starts.
Pressed(k) ==
    /\ ~crashed
    /\ routed.n + issued.keys < MaxKeys
    /\ KeyRouted(k)
    /\ cmds' = cmds (+) Launch(routed'.cmd, docker, groupManager)
    /\ UNCHANGED <<docker, groupManager, issued, ticks, crashed, refreshes>>
    /\ UNCHANGED NotLoop

\* The same in the runs from App.Init.
LoopKey(k) == routed.n < MaxLoopKeys /\ Pressed(k)

\* "s", "x" or "r" in the containers view with a container selected:
\* App.Update returns startContainer, stopContainer or restartContainer
\* for it.
KeyMutate(op) ==
    /\ running /\ ~crashed
    /\ issued.keys < MaxMutations
    /\ routed.n + issued.keys < MaxKeys
    /\ modal.type = "none"
    /\ currentView = ViewContainers
    /\ ViewContainers \notin filtering
    /\ ~ContainersViewSelected(FALSE, lists).nil
    /\ cmds' = cmds (+) Launch({Cmd(op, ContainersViewSelected(FALSE, lists).val,
                                     "")},
                                docker, groupManager)
    /\ issued' = [issued EXCEPT
                      !.keys = @ + 1,
                      !.overlap = @ \/ \E c \in Commands :
                                          c.a = ContainersViewSelected(FALSE, lists).val]
    /\ UNCHANGED <<appVars, inputVars, pendingEnv, envModified>>
    /\ UNCHANGED <<docker, groupManager, ticks, crashed>>
    /\ UNCHANGED NotLoop

\* The outstanding tick fires and App.Update reduces its RefreshTickMsg.
RefreshTick ==
    /\ running /\ ~crashed
    /\ ticks > 0
    /\ issued.ticks < MaxTicks
    /\ LET r == RefreshTickMsg(docker # "nil", currentView, filtering)
       IN /\ ticks' = (ticks - 1) + r.tick
          /\ cmds' = cmds (+) Launch(r.fetch, docker, groupManager)
          /\ issued' = [issued EXCEPT !.ticks = @ + 1,
                                      !.skipped = @ \/ r.skipped]
    /\ UNCHANGED <<appVars, inputVars, pendingEnv, envModified>>
    /\ UNCHANGED <<docker, groupManager, crashed>>
    /\ UNCHANGED NotLoop

\* A step of code that runs on a goroutine the runtime or the client
\* started for stream s: the body of the start Command, the producer, the
\* bodies of the waitFor* Commands.
CommandBody(s) ==
    \/ StartCmdRun(s)
    \/ \E f \in StoreFields : StartStore(s, f)
    \/ \E ok \in BOOLEAN : ProducerOpen(s, ok)
    \/ ProducerRead(s) \/ ProducerSend(s) \/ ProducerEOF(s)
    \/ ProducerFail(s) \/ ProducerClose(s)
    \/ \E who \in Waiters :
          \/ WaitData(s, who) \/ WaitDataClosed(s, who)
          \/ WaitErr(s, who) \/ WaitErrClosed(s, who)

\* C25: the fields of App and of the views are written by App.Update
\* only: no step of a Command body changes any of them.
C25_OnlyReducerWritesState ==
    [][\A s \in Streams : CommandBody(s) => UNCHANGED appVars]_vars

(***************************************************************************)
(* Properties of the Event Loop.                                           *)
(***************************************************************************)
\* main: the exit status of the process.  p.Run returns nil after tea.Quit
\* and main returns (status 0); os.Exit(1) follows an error of p.Run; a
\* panic ends the process with a status other than 0.
ExitStatus ==
    IF crashed THEN "nonzero" ELSE IF ~running THEN "0" ELSE "running"

\* The initDockerClient Command of App.Init is in flight as c.
InitClient(c) == c \in Commands /\ c.op = "initDockerClient"

\* C22: when docker.NewClient fails at startup the error is fatal: once the
\* failure of initDockerClient is reduced the program does not go on
\* running its event loop, and the process ends with a status other than 0.
C22_StartupFailureFatal ==
    [][\A c \in Commands :
          (InitClient(c) /\ Complete(c, FALSE))
              => (~running' /\ ExitStatus' = "nonzero")]_vars

\* C23: no Command the Reducer issues panics, whatever the state of the
\* clients when it was issued: the process never crashes.
C23_NoCommandPanics == ~crashed

\* The Commands of the single mutations: start, stop, restart or remove a
\* container, remove an image, a volume or a network, connect, disconnect,
\* pull.
SingleMutations ==
    {"startContainer", "stopContainer", "restartContainer", "removeContainer",
     "removeImage", "removeVolume", "removeNetwork",
     "connectContainerToNetwork", "disconnectContainerFromNetwork",
     "pullImage"}
\* Command c of kind in ops fails and its result Event is reduced.
Fails(c, ops) ==
    c \in Commands /\ c.op \in ops /\ c.client = "ready" /\ Complete(c, FALSE)

\* C24: the reduction of the result Event of a failed single mutation sets
\* the error banner and schedules its clear, does not quit, and leaves the
\* other Commands in flight.
C24_FailedMutationSetsBanner ==
    [][\A c \in Commands :
          Fails(c, SingleMutations)
              => /\ errorMessage' # <<>>
                 /\ clearTimers' = clearTimers + 1
                 /\ running' /\ ~crashed'
                 /\ Others(c) \sqsubseteq cmds']_vars

\* renderFooter: the banner the footer shows, the error before the status.
Footer ==
    IF errorMessage # <<>> THEN <<"error", errorMessage[1]>>
    ELSE IF statusMessage # "" THEN <<"status", statusMessage>>
    ELSE <<"help">>
StartStopRestart == {"startContainer", "stopContainer", "restartContainer"}
\* The banner of the result of Command c.
BannerOf(c, ok) ==
    IF c.op = "startContainer"
    THEN IF ok THEN <<"status", "Container started">>
         ELSE <<"error", "Failed to start container: ">>
    ELSE IF c.op = "stopContainer"
    THEN IF ok THEN <<"status", "Container stopped">>
         ELSE <<"error", "Failed to stop container: ">>
    ELSE IF ok THEN <<"status", "Container restarted">>
         ELSE <<"error", "Failed to restart container: ">>

\* C26: a mutation issued on a container while another one on the same
\* container is in flight joins it in flight; and when the result of the
\* last of them is reduced, the footer shows the banner of that result,
\* whichever Command it is and whether it failed or not.
C26_LastResultWins ==
    [][/\ \A op \in StartStopRestart :
            KeyMutate(op)
                => /\ cmds \sqsubseteq cmds'
                   /\ \E c \in BagToSet(cmds') :
                         c.op = op /\ c.a = ContainersViewSelected(FALSE, lists).val
       /\ \A c \in Commands, ok \in BOOLEAN :
            (/\ c.op \in StartStopRestart
             /\ issued.overlap
             /\ ~\E o \in BagToSet(Others(c)) :
                    o.op \in StartStopRestart /\ o.a = c.a
             /\ Complete(c, ok))
                => Footer' = BannerOf(c, ok)]_vars

\* What the networks view shows: the container count of every network, the
\* selected network, and the two container lists of the selected network
\* (NetworksView.GetContainersInNetwork and GetAvailableContainers).
NetworksShown(nv) ==
    [counts |-> [i \in 1..Len(nv.networks) |->
                    <<nv.networks[i].id, Len(nv.networks[i].containers)>>],
     selected |-> IF nv.selectedNetwork.nil THEN "nil"
                  ELSE nv.selectedNetwork.val.id,
     inNetwork |-> IF nv.selectedNetwork.nil THEN <<>>
                   ELSE SelectSeq(nv.allContainers,
                            LAMBDA c : nv.selectedNetwork.val.name \in NetworksOf(c)),
     available |-> IF nv.selectedNetwork.nil THEN <<>>
                   ELSE SelectSeq(nv.allContainers,
                            LAMBDA c : nv.selectedNetwork.val.name \notin NetworksOf(c))]
\* C27: the networks view shows the same counts, selection and container
\* lists whichever of NetworksLoadedMsg and ContainersLoadedMsg of one
\* refresh is reduced first, for every pair of fetched collections.
C27_LoadOrderIrrelevant ==
    \A ns \in NetworkLists, cs \in ContainerLists :
        NetworksShown(SetAllContainers(SetNetworks(networksView, ns), cs))
            = NetworksShown(SetNetworks(SetAllContainers(networksView, cs), ns))
\* The same with the empty container list left out.
C27_NonEmptyOrderIrrelevant ==
    \A ns \in NetworkLists, cs \in ContainerLists \ {<<>>} :
        NetworksShown(SetAllContainers(SetNetworks(networksView, ns), cs))
            = NetworksShown(SetNetworks(SetAllContainers(networksView, cs), ns))
\* Commands whose body removes a container, an image, a volume or a network
\* through the Resource Client, or deletes a group or removes a member
\* through the Group Store.
Removals == {"removeContainer", "removeImage", "removeVolume", "pruneVolumes",
             "removeNetwork", "deleteGroup", "removeContainerFromGroup"}
\* The Commands a key issues that remove something are issued by the
\* confirmation of a modal only.
C28_KeyRemovalsConfirmed ==
    \A c \in routed.cmd : c.op \in Removals => routed.by = ByModal
\* C28: no call that removes a container, image, volume or network is made
\* unless the user has confirmed a modal for it; here the ContainerRemove of
\* RecreateContainer, which "ctrl+s" in the env vars view leads to.
C28_RemovalNeedsConfirmation ==
    [][(\E ok \in BOOLEAN : RecRemove(ok)) =>
           (modal.type # "none" \/ routed.by = ByModal)]_vars
\* C29: until quit exactly one refresh tick is outstanding; every reduction
\* of RefreshTickMsg re-arms one tick, and fetches what the current view
\* shows unless the client is not ready or the view is filtering, in which
\* case it issues no Command.
C29_OneTickOutstanding ==
    /\ [](running => ticks = 1)
    /\ [][RefreshTick =>
            /\ ticks' = 1
            /\ (docker = "nil" \/ currentView \in filtering) => cmds' = cmds
            /\ (docker # "nil" /\ currentView \notin filtering) =>
                   \A f \in FetchFor(currentView) :
                       CopiesIn(Started(f, docker, groupManager), cmds')
                           = CopiesIn(Started(f, docker, groupManager), cmds) + 1]_vars
\* Two ticks were reduced, one of them while the current view was filtering,
\* and a tick is outstanding.
C29_Witness ==
    /\ issued.ticks = MaxTicks /\ issued.skipped
    /\ running /\ ticks = 1
\* One mutation applied to the groups of a store, as a whole.
Applied(gs, call) ==
    LET p == FindGroup(gs, Len(gs), call.g) IN
    IF call.op = "CreateGroup" THEN Append(gs, Group(call.g, <<>>))
    ELSE IF p = 0 THEN gs
    ELSE IF call.op = "DeleteGroup"
    THEN [j \in 1..(Len(gs) - 1) |-> IF j < p THEN gs[j] ELSE gs[j + 1]]
    ELSE IF call.op = "AddContainerToGroup"
    THEN IF \E k \in 1..Len(gs[p].members) : gs[p].members[k] = call.c
         THEN gs
         ELSE [gs EXCEPT ![p].members = Append(@, call.c)]
    ELSE [gs EXCEPT ![p].members = Without(@, call.c)]
\* The calls applied one after the other in the order given.
RECURSIVE Serially(_, _)
Serially(gs, order) ==
    IF order = <<>> THEN gs
    ELSE Serially(Applied(gs, sc[Head(order)]), Tail(order))
\* The orders in which the calls made can be put.
Orders ==
    {o \in [1..Len(sc) -> 1..Len(sc)] :
        \A i, j \in 1..Len(sc) : i # j => o[i] # o[j]}
AllReturned == \A i \in 1..Len(sc) : sc[i].pc = "done"
\* Once every call has returned the store holds what the calls give when
\* applied one at a time in some order.
C30_Serializable ==
    AllReturned =>
        \E o \in Orders : Saved(groups, glen) = Serially(LoadedGroups, o)
\* A call that the save made successful returns with the file holding the
\* store.
C30_SavedBeforeReturn ==
    \A i \in 1..Len(sc) :
        (sc[i].pc = "unlock" /\ sc[i].ret = "nil"
            /\ (sc[i].op = "CreateGroup" \/ sc[i].p # 0)) =>
                disk = Saved(groups, glen)
\* The file holds what the call was to bring about.
OnDisk(call) ==
    LET p == FindGroup(disk, Len(disk), call.g)
        member == p # 0 /\ \E k \in 1..Len(disk[p].members) :
                               disk[p].members[k] = call.c
    IN IF call.op = "CreateGroup" THEN p # 0
       ELSE IF call.op = "DeleteGroup" THEN p = 0
       ELSE IF call.op = "AddContainerToGroup" THEN member
       ELSE p # 0 /\ ~member
\* C30: concurrent CreateGroup, AddContainerToGroup, RemoveContainerFromGroup
\* and DeleteGroup calls leave the store as some serial order of them
\* would, and every call that returns a nil error returns with its change
\* written to the file.
C30_AtomicAndPersisted ==
    /\ AllReturned =>
           \E o \in Orders : Saved(groups, glen) = Serially(LoadedGroups, o)
    /\ \A i \in 1..Len(sc) :
           (sc[i].pc = "unlock" /\ sc[i].ret = "nil") => OnDisk(sc[i])
(***************************************************************************)
(* The list views: the backing slice of a view (v.groups, v.networks,      *)
(* v.volumes, v.projects, v.containers) beside the list.Model that shows   *)
(* it.  The list filters on FilterValue (the name); its cursor counts the  *)
(* rows it shows.  Names are two characters and a filter text is one       *)
(* character, so that every match has the same rank and the filtered rows  *)
(* keep the order of the slice.                                            *)
(***************************************************************************)
MaxItems == 3
ListKinds == {"groups", "networks", "volumes", "compose", "containers"}
Items == [l : {"a", "b"}, d : {"1", "2"}]
NoItem == [l |-> "", d |-> ""]
FilterTexts == {"a", "b", "1", "2"}
ItemLists ==
    {q \in UNION {[1..n -> Items] : n \in 1..MaxItems} :
        \A i, j \in 1..Len(q) : q[i] = q[j] => i = j}
FilterValue(item) == <<item.l, item.d>>
Matches(item, text) ==
    text = "" \/ \E i \in 1..2 : FilterValue(item)[i] = text
FilterItems(items, text) == SelectSeq(items, LAMBDA it : Matches(it, text))
\* list.Model.VisibleItems: the filtered items unless the list is unfiltered.
VisibleItems(m) == IF m.state = "unfiltered" THEN m.items ELSE m.filtered
\* list.Model.Index: the cursor among the rows shown (one page).
Index(m) == m.cursor
\* list.Model.SelectedItem.
SelectedItem(m) ==
    IF Index(m) < 0 \/ Len(VisibleItems(m)) = 0
       \/ Len(VisibleItems(m)) <= Index(m)
    THEN NoItem
    ELSE VisibleItems(m)[Index(m) + 1]
\* The row the list draws as selected.
Highlighted(m) ==
    IF VisibleItems(m) = <<>> THEN NoItem ELSE VisibleItems(m)[m.cursor + 1]
GetSelectedGroup(m) ==
    IF Len(m.items) = 0 \/ Index(m) >= Len(m.items)
    THEN NoItem ELSE m.items[Index(m) + 1]
GetSelectedNetwork(m) ==
    IF Len(m.items) = 0 \/ Index(m) >= Len(m.items)
    THEN NoItem ELSE m.items[Index(m) + 1]
GetSelectedVolume(m) ==
    IF Len(m.items) = 0 \/ Index(m) >= Len(m.items)
    THEN NoItem ELSE m.items[Index(m) + 1]
GetSelectedProject(m) ==
    IF Len(m.items) = 0 \/ Index(m) >= Len(m.items)
    THEN NoItem ELSE m.items[Index(m) + 1]
GetSelectedContainer(m) == SelectedItem(m)
GetSelected(m) ==
    CASE m.kind = "groups" -> GetSelectedGroup(m)
      [] m.kind = "networks" -> GetSelectedNetwork(m)
      [] m.kind = "volumes" -> GetSelectedVolume(m)
      [] m.kind = "compose" -> GetSelectedProject(m)
      [] OTHER -> GetSelectedContainer(m)

NoList == [kind |-> "none", items |-> <<>>, state |-> "unfiltered",
           value |-> "", filtered |-> <<>>, cursor |-> 0, acted |-> NoItem]
ListIdle == lm = NoList
\* A view after its Set... call: the slice and the list hold the same rows.
ListInit ==
    \E k \in ListKinds, q \in ItemLists :
        lm = [NoList EXCEPT !.kind = k, !.items = q]
ListFrame == UNCHANGED <<appVars, streamVars, storeVars, batchVars, recVars,
                         inputVars, loopVars, fileVars>>
\* "/" in a list that is not filtering opens the filter input.
StartFilter ==
    /\ lm.state # "filtering" /\ lm.items # <<>>
    /\ lm' = [lm EXCEPT !.state = "filtering", !.cursor = 0,
                        !.filtered = IF lm.value = "" THEN lm.items
                                     ELSE lm.filtered]
    /\ ListFrame
\* A character typed into the empty filter input; the rows are filtered.
TypeFilter(text) ==
    /\ lm.state = "filtering" /\ lm.value = ""
    /\ lm' = [lm EXCEPT !.value = text, !.cursor = 0,
                        !.filtered = FilterItems(lm.items, text)]
    /\ ListFrame
\* "enter" in the filter input: the filter is applied, or dropped when it
\* is empty or shows no row.
AcceptFilter ==
    /\ lm.state = "filtering"
    /\ lm' = IF lm.filtered = <<>> \/ lm.value = ""
             THEN [lm EXCEPT !.state = "unfiltered", !.value = "",
                             !.filtered = <<>>]
             ELSE [lm EXCEPT !.state = "applied"]
    /\ ListFrame
\* "esc" in the filter input: the filter is dropped.
CancelFilter ==
    /\ lm.state = "filtering"
    /\ lm' = [lm EXCEPT !.state = "unfiltered", !.value = "",
                        !.filtered = <<>>]
    /\ ListFrame
CursorDown ==
    /\ lm.state # "filtering"
    /\ lm.cursor + 1 < Len(VisibleItems(lm))
    /\ lm' = [lm EXCEPT !.cursor = lm.cursor + 1]
    /\ ListFrame
CursorUp ==
    /\ lm.state # "filtering"
    /\ lm.cursor > 0
    /\ lm' = [lm EXCEPT !.cursor = lm.cursor - 1]
    /\ ListFrame
\* An action key of the view (start, stop, delete, enter), taken by
\* App.Update since the list is not filtering: it acts on GetSelected...().
ActionKey ==
    /\ lm.state # "filtering"
    /\ lm' = [lm EXCEPT !.acted = GetSelected(lm)]
    /\ ListFrame

\* C31: "enter" on the Create New Network form with a name typed and the
\* driver field left empty issues createNetwork with the driver "bridge".
C31_DefaultDriverBridge ==
    [][(/\ Key("enter")
        /\ modal.type = "form" /\ pendingDeleteType = "create_network"
        /\ Len(modal.inputs) = 2 /\ modal.inputs[1] /\ ~modal.inputs[2]) =>
           routed'.cmd = {Cmd("createNetwork", "name", "bridge")}]_vars
(***************************************************************************)
(* The configuration file: config.SaveConfig and config.LoadConfig.        *)
(***************************************************************************)
\* Group sets a configuration holds.
Configs == {<<>>, <<"g1">>, <<"g2">>, <<"g1", "g2">>}
\* A path with no file, a file with complete data, and a file whose write
\* was cut short.
Absent == [there |-> FALSE, whole |-> TRUE, data |-> <<>>]
File(data) == [there |-> TRUE, whole |-> TRUE, data |-> data]
Partial == [there |-> TRUE, whole |-> FALSE, data |-> <<>>]
\* json.MarshalIndent of a GroupConfig and json.Unmarshal of its bytes.
Marshal(gs) == <<"version", "1.0", "groups", gs>>
Unmarshal(data) == data[4]
\* LoadConfig: a new empty configuration when the file does not exist, a
\* parse error when its JSON is cut short, else the groups it holds.
LoadConfig(f) ==
    IF ~f.cfg.there THEN [err |-> "nil", groups |-> <<>>]
    ELSE IF ~f.cfg.whole
    THEN [err |-> "failed to parse config file", groups |-> <<>>]
    ELSE [err |-> "nil", groups |-> Unmarshal(f.cfg.data)]
NotLoaded == [err |-> "none", groups |-> <<>>]
\* No configuration file yet and no save under way.
FileIdle ==
    /\ fs = [cfg |-> Absent, tmp |-> Absent, bak |-> Absent]
    /\ sv = [pc |-> "idle", data |-> <<>>, prev |-> <<>>, n |-> 0]
    /\ loaded = NotLoaded
\* A configuration saved by an earlier run, or none.
FileInit ==
    /\ \E gs \in Configs :
          fs = [cfg |-> File(Marshal(gs)), tmp |-> Absent, bak |-> Absent]
    /\ sv = [pc |-> "idle", data |-> <<>>, prev |-> <<>>, n |-> 0]
    /\ loaded = NotLoaded
FileFrame == UNCHANGED <<appVars, streamVars, storeVars, batchVars, recVars,
                         inputVars, loopVars, listVars>>
\* SaveConfig(config) is called: the data is marshalled.
SaveBegin(gs) ==
    /\ sv.pc = "idle"
    /\ sv.n < MaxSaves
    /\ sv' = [pc |-> "write", data |-> Marshal(gs),
              prev |-> LoadConfig(fs).groups, n |-> sv.n + 1]
    /\ UNCHANGED <<fs, loaded>>
    /\ FileFrame
\* os.WriteFile(tmpFile, ...): the file is created or truncated, ...
WriteTmpOpen ==
    /\ sv.pc = "write"
    /\ fs' = [fs EXCEPT !.tmp = Partial]
    /\ sv' = [sv EXCEPT !.pc = "writing"]
    /\ UNCHANGED loaded
    /\ FileFrame
\* ... and the data is written, or the write fails and SaveConfig returns
\* the error.
WriteTmpEnd(ok) ==
    /\ sv.pc = "writing"
    /\ fs' = IF ok THEN [fs EXCEPT !.tmp = File(sv.data)] ELSE fs
    /\ sv' = [sv EXCEPT !.pc = IF ok THEN "stat" ELSE "idle"]
    /\ UNCHANGED loaded
    /\ FileFrame
\* os.Stat(configPath): a backup is made only of a file that exists.
StatConfig ==
    /\ sv.pc = "stat"
    /\ sv' = [sv EXCEPT !.pc = IF fs.cfg.there THEN "backup" ELSE "rename"]
    /\ UNCHANGED <<fs, loaded>>
    /\ FileFrame
\* The backup left in place: the configuration stays at configPath.
BackupCopies(ok) ==
    /\ sv.pc = "backup"
    /\ fs' = IF ok THEN [fs EXCEPT !.bak = fs.cfg] ELSE fs
    /\ sv' = [sv EXCEPT !.pc = "rename"]
    /\ UNCHANGED loaded
    /\ FileFrame
\* os.Rename(configPath, backupPath): the file moves to the backup path; an
\* error is ignored.
RenameBackup(ok) ==
    /\ sv.pc = "backup"
    /\ fs' = IF ok THEN [fs EXCEPT !.bak = fs.cfg, !.cfg = Absent] ELSE fs
    /\ sv' = [sv EXCEPT !.pc = "rename"]
    /\ UNCHANGED loaded
    /\ FileFrame
\* os.Rename(tmpFile, configPath): the temporary file replaces the
\* configuration, or SaveConfig returns the error.
RenameTmp(ok) ==
    /\ sv.pc = "rename"
    /\ fs' = IF ok THEN [fs EXCEPT !.cfg = fs.tmp, !.tmp = Absent] ELSE fs
    /\ sv' = [sv EXCEPT !.pc = "idle"]
    /\ UNCHANGED loaded
    /\ FileFrame
\* The process stops inside SaveConfig; the next run calls LoadConfig.
StopInSave ==
    /\ sv.pc \notin {"idle", "stopped"}
    /\ sv' = [sv EXCEPT !.pc = "stopped"]
    /\ loaded' = LoadConfig(fs)
    /\ UNCHANGED fs
    /\ FileFrame
\* The next run goes on with what it loaded.
Rerun ==
    /\ sv.pc = "stopped"
    /\ sv' = [sv EXCEPT !.pc = "idle"]
    /\ UNCHANGED <<fs, loaded>>
    /\ FileFrame

\* C32: when the process stops inside SaveConfig, LoadConfig afterwards
\* returns the complete configuration the file held before the call or the
\* complete one being saved.
C32_SaveIsAtomic ==
    sv.pc = "stopped" =>
        /\ loaded.err = "nil"
        /\ loaded.groups \in {sv.prev, Unmarshal(sv.data)}
\* The networks of the view that are system networks of the daemon.
SystemIDs ==
    {networksView.networks[i].id : i \in
        {j \in 1..Len(networksView.networks) : networksView.networks[j].system}}
\* C33: no key issues removeNetwork or connectContainerToNetwork for a
\* system network (the Commands of a step that routes a key are in routed); "d" on a system network in the list tab sets the error
\* banner and opens no modal; "enter" on the Available tab of a system
\* network issues nothing.
C33_SystemNetworksProtected ==
    [][/\ routed'.n # routed.n =>
              \A c \in routed'.cmd :
                 c.op \in {"removeNetwork", "connectContainerToNetwork"} =>
                     c.a \notin SystemIDs
       /\ (/\ modal.type = "none"
           /\ currentView = ViewNetworks /\ networksView.currentTab = 0
           /\ ViewNetworks \notin filtering
           /\ Len(networksView.networks) > 0
           /\ networksView.networks[1].system
           /\ Key("d")) =>
              /\ errorMessage' = <<"Cannot delete system network">>
              /\ modal'.type = "none"
              /\ clearTimers' = clearTimers + 1
       /\ (/\ modal.type = "none"
           /\ currentView = ViewNetworks /\ networksView.currentTab = 2
           /\ ViewNetworks \notin filtering
           /\ ~networksView.selectedNetwork.nil
           /\ networksView.selectedNetwork.val.system
           /\ Key("enter")) =>
              routed'.cmd = {}]_vars
\* The fourth key was routed on the Available tab of the selected system
\* network, where containers are available, and issued nothing.
C33_Witness ==
    /\ currentView = ViewNetworks /\ networksView.currentTab = 2
    /\ modal.type = "none"
    /\ ~networksView.selectedNetwork.nil
    /\ networksView.selectedNetwork.val.system
    /\ AvailableForNetwork(Cur) # <<>>
    /\ routed.n = 4 /\ routed.by = ByGlobal /\ routed.cmd = {}
\* No member list of the store holds a container twice.
Once(members) == \A j, k \in 1..Len(members) : j # k => members[j] # members[k]
NoDuplicateMembers == \A i \in 1..glen : Once(groups[i].members)
\* The same for every operation but ReplaceContainerID.
C34_OnceWithoutReplace ==
    [][(~\E a, b \in ContainerIDs, ok \in BOOLEAN : ReplaceContainerID(a, b, ok))
          => NoDuplicateMembers']_vars
\* C34: after any Group Store operation no group holds a container twice,
\* and AddContainerToGroup of a member leaves the groups as they are.
C34_MembersOnce ==
    /\ []NoDuplicateMembers
    /\ [][\A i \in 1..Len(GroupIDs), c \in ContainerIDs, ok \in BOOLEAN :
            (/\ AddContainerToGroup(GroupIDs[i], c, ok)
             /\ FindGroup(groups, glen, GroupIDs[i]) # 0
             /\ FirstAt(groups[FindGroup(groups, glen, GroupIDs[i])].members, c) # 0)
                => UNCHANGED <<groups, glen, disk>>]_vars
\* The stream the last "l" opened: the one the logs view is set to.
CurrentLogs ==
    LET opened == {s \in 1..nextStream : kind[s] = "logs"}
    IN IF opened = {} THEN 0 ELSE CHOOSE s \in opened : \A t \in opened : t <= s
\* The three parts of C35, each on its own.
C35_LinesOfCurrentStream ==
    \A i \in 1..Len(logsView.lines) : logsView.lines[i][1] = CurrentLogs
C35_ChannelsOfCurrentStream ==
    logsView.ready =>
        (logsView.logsChan = CurrentLogs /\ logsView.errorChan = CurrentLogs)
C35_OneNextOutstanding ==
    CurrentLogs # 0 => appWait[CurrentLogs] + ViewWaitData(CurrentLogs) <= 1
\* C35: every line the logs view holds comes from the stream opened for the
\* container it is set to; once streaming has started the view's channels
\* are those of that stream; and at most one next Command waits on it.
C35_ViewFollowsCurrentStream ==
    /\ \A i \in 1..Len(logsView.lines) : logsView.lines[i][1] = CurrentLogs
    /\ logsView.ready =>
          (logsView.logsChan = CurrentLogs /\ logsView.errorChan = CurrentLogs)
    /\ CurrentLogs # 0 => appWait[CurrentLogs] + ViewWaitData(CurrentLogs) <= 1
\* C36: a banner is erased only by the clear timer of the Event that set
\* it.  The timers of two results run for the same time, so of two pending
\* timers the one that fires is the older one: a ClearStatusMsg that
\* erases a banner must find no other timer pending.
C36_BannerKeptUntilOwnTimer ==
    [][(ClearStatus /\ (errorMessage # <<>> \/ statusMessage # "")) =>
           clearTimers = 1]_vars
\* C37: "esc" in the About view, and in the env vars view when no variable
\* is being added or edited, leaves that view.
C37_EscLeavesView ==
    [][(/\ Key("esc")
        /\ modal.type = "none"
        /\ currentView \notin filtering
        /\ \/ currentView = ViewAbout
           \/ currentView = ViewEnvVars /\ editor.mode = "list") =>
           currentView' # currentView]_vars
\* The same for the states in which the previous view is another view.
C37_EscReturnsToPrevious ==
    [][(/\ Key("esc")
        /\ modal.type = "none"
        /\ currentView \notin filtering
        /\ previousView # currentView
        /\ \/ currentView = ViewAbout
           \/ currentView = ViewEnvVars /\ editor.mode = "list") =>
           currentView' = previousView]_vars
\* C38: whenever no modal is present the pending-operation fields are
\* empty.
C38_NoModalNoPending ==
    modal.type = "none" => (pendingDelete = "" /\ pendingDeleteType = "")
\* The same after a cancel, and after a confirmation that issues nothing.
C38_PendingClearedWithoutCommand ==
    (modal.type = "none" /\ routed.by = ByModal /\ routed.cmd = {}) =>
        (pendingDelete = "" /\ pendingDeleteType = "")
\* C39: a mutation whose save fails returns the error and leaves the groups
\* in memory as they were, equal to what the file holds.
C39_FailedSaveChangesNothing ==
    [][(storeOps' # storeOps /\ storeErr' = "save failed") =>
           /\ Saved(groups', glen') = Saved(groups, glen)
           /\ Saved(groups', glen') = disk']_vars
\* A mutation whose save fails returns the error and leaves the file as it
\* was.
C39_FailedSaveKeepsFile ==
    [][\A i \in 1..Len(GroupIDs), c \in ContainerIDs :
          (\/ AddContainerToGroup(GroupIDs[i], c, FALSE)
           \/ RemoveContainerFromGroup(GroupIDs[i], c, FALSE)
           \/ DeleteGroup(GroupIDs[i], FALSE)
           \/ CreateGroup(FALSE)) =>
              (disk' = disk /\ storeErr' # "nil")
              \/ (UNCHANGED <<groups, glen, disk>> /\ storeErr' = "nil")]_vars
\* C40: in every list view an action key acts on the row the list shows as
\* selected, whether the list is unfiltered or a filter is applied.
C40_ActsOnHighlighted ==
    [][ActionKey => lm'.acted = Highlighted(lm)]_vars
\* In an unfiltered list an action key acts on the selected row.
C40_UnfilteredActsOnHighlighted ==
    [][(ActionKey /\ lm.state = "unfiltered") =>
           lm'.acted = Highlighted(lm)]_vars
\* In the containers view an action key acts on the selected row.
C40_ContainersActOnHighlighted ==
    [][(ActionKey /\ lm.kind = "containers") =>
           lm'.acted = Highlighted(lm)]_vars
NextStream ==
    \/ \E c \in Containers : KeyLogs(c)
    \/ \E c \in Containers : KeyStats(c)
    \/ KeyQuitBack
    \/ KeyQuit
    \/ KeyBack
    \/ \E s \in Streams : StartCmdRun(s)
    \/ \E s \in Streams, f \in StoreFields : StartStore(s, f)
    \/ \E s \in Streams, ok \in BOOLEAN : ProducerOpen(s, ok)
    \/ \E s \in Streams : ProducerRead(s)
    \/ \E s \in Streams : ProducerSend(s)
    \/ \E s \in Streams : ProducerEOF(s)
    \/ \E s \in Streams : ProducerFail(s)
    \/ \E s \in Streams : ProducerClose(s)
    \/ \E s \in Streams, who \in Waiters : WaitData(s, who)
    \/ \E s \in Streams, who \in Waiters : WaitDataClosed(s, who)
    \/ \E s \in Streams, who \in Waiters : WaitErr(s, who)
    \/ \E s \in Streams, who \in Waiters : WaitErrClosed(s, who)
    \/ \E m \in Messages : Reduce(m)
    \/ ReduceRearm
    \/ ClearStatus

InitStream ==
    AppInit /\ StreamInit /\ StoreEmpty /\ BatchIdle /\ RecIdle /\ InputInit
    /\ LoopIdle /\ FileIdle /\ ListIdle
SpecStream == InitStream /\ [][NextStream]_vars

NextBatch ==
    \/ KeyGroups
    \/ LoadGroups
    \/ ReduceGroupsLoaded
    \/ \E i \in 1..Len(GroupIDs) : KeyStartGroup(GroupIDs[i])
    \/ ExGetGroup
    \/ ExMakeChan
    \/ ExRange
    \/ ExLaunch
    \/ \E i \in WorkerIdx : WorkerCall(i)
    \/ \E i \in WorkerIdx, e \in {"nil"} \cup Causes : WorkerReturn(i, e)
    \/ \E i \in WorkerIdx : WorkerSend(i)
    \/ ExWait
    \/ ExCollect
    \/ ExReturn
    \/ ReduceGroupStarted
    \/ ClearStatus
    \/ \E i \in 1..Len(GroupIDs), c \in ContainerIDs, ok \in BOOLEAN :
          AddContainerToGroup(GroupIDs[i], c, ok)
    \/ \E i \in 1..Len(GroupIDs), c \in ContainerIDs, ok \in BOOLEAN :
          RemoveContainerFromGroup(GroupIDs[i], c, ok)
    \/ \E i \in 1..Len(GroupIDs), ok \in BOOLEAN : DeleteGroup(GroupIDs[i], ok)

InitBatch ==
    AppInit /\ StreamInit /\ StoreSecondEmpty /\ BatchIdle /\ RecIdle /\ InputGroups
    /\ LoopIdle /\ FileIdle /\ ListIdle
SpecBatch == InitBatch /\ [][NextBatch]_vars

NextRecreate ==
    \/ KeyEnvVars
    \/ \E c \in Containers, nets \in SUBSET Networks, failed \in BOOLEAN :
          EnvLoaded(c, nets, failed)
    \/ EnvEdit
    \/ KeyEscEnv
    \/ KeyCtrlS
    \/ \E ok \in BOOLEAN : RecStop(ok)
    \/ \E ok \in BOOLEAN : RecRemove(ok)
    \/ \E first \in Networks \cup {""} : RecBuild(first)
    \/ \E ok \in BOOLEAN : RecCreate(ok)
    \/ \E net \in Networks, ok \in BOOLEAN : RecAttach(net, ok)
    \/ \E ok \in BOOLEAN : RecStartContainer(ok)
    \/ RecReturn
    \/ ReduceRecreated
    \/ ClearStatus

InitRecreate ==
    AppInit /\ StreamInit /\ StoreEmpty /\ BatchIdle /\ RecIdle /\ InputInit
    /\ LoopIdle /\ FileIdle /\ ListIdle
SpecRecreate == InitRecreate /\ [][NextRecreate]_vars

NextInput ==
    \/ \E k \in Keys : Key(k)
    \/ RefreshFetch
    \/ \E c \in Containers, n \in 0..MaxEnvVars, failed \in BOOLEAN :
          ConfigLoaded(c, n, failed)
    \/ \E items \in ContainerLists : ContainersLoaded(items)
    \/ \E gs \in GroupLists : GroupsLoaded(gs)
    \/ \E ns \in NetworkLists : NetworksLoaded(ns)
    \/ \E ps \in ProjectLists : ComposeProjectsLoaded(ps)

InitInput ==
    AppInit /\ StreamInit /\ StoreEmpty /\ BatchIdle /\ RecIdle /\ InputInit
    /\ LoopIdle /\ FileIdle /\ ListIdle
SpecInput == InitInput /\ [][NextInput]_vars

NextLoop ==
    \/ \E k \in LoopKeys : LoopKey(k)
    \/ \E c \in Commands, ok \in BOOLEAN : Complete(c, ok)
    \/ RefreshTick
    \/ ClearStatus

InitLoop ==
    AppInit /\ StreamInit /\ StoreEmpty /\ BatchIdle /\ RecIdle /\ InputNew
    /\ LoopInit /\ FileIdle /\ ListIdle
SpecLoop == InitLoop /\ [][NextLoop]_vars

NextMutate ==
    \/ \E k \in MutateKeys : Pressed(k)
    \/ \E op \in {"startContainer", "stopContainer", "restartContainer"} :
          KeyMutate(op)
    \/ \E c \in Commands, ok \in BOOLEAN : Complete(c, ok)
    \/ ClearStatus

InitMutate ==
    AppInit /\ StreamInit /\ StoreEmpty /\ BatchIdle /\ RecIdle /\ InputInit
    /\ LoopIdle /\ FileIdle /\ ListIdle
SpecMutate == InitMutate /\ [][NextMutate]_vars


NextStore ==
    \/ \E op \in StoreMutations, i \in 1..Len(GroupIDs), c \in StoreMembers :
          StoreCall(op, GroupIDs[i], c)
    \/ \E i \in 1..MaxCalls : Lock(i)
    \/ \E i \in 1..MaxCalls : StoreFind(i)
    \/ \E i \in 1..MaxCalls : StoreWrite(i)
    \/ \E i \in 1..MaxCalls, ok \in BOOLEAN : StoreSave(i, ok)
    \/ \E i \in 1..MaxCalls : StoreReturn(i)

InitStore ==
    AppInit /\ StreamInit /\ StoreLoaded /\ BatchIdle /\ RecIdle /\ InputInit
    /\ LoopIdle /\ FileIdle /\ ListIdle
SpecStore == InitStore /\ [][NextStore]_vars


NextSave ==
    \/ \E gs \in Configs : SaveBegin(gs)
    \/ WriteTmpOpen
    \/ \E ok \in BOOLEAN : WriteTmpEnd(ok)
    \/ StatConfig
    \/ \E ok \in BOOLEAN : RenameBackup(ok)
    \/ \E ok \in BOOLEAN : RenameTmp(ok)
    \/ StopInSave
    \/ Rerun

InitSave ==
    AppInit /\ StreamInit /\ StoreEmpty /\ BatchIdle /\ RecIdle /\ InputInit
    /\ LoopIdle /\ FileInit /\ ListIdle
SpecSave == InitSave /\ [][NextSave]_vars


InitNets ==
    AppInit /\ StreamInit /\ StoreEmpty /\ BatchIdle /\ RecIdle /\ InputSystem
    /\ LoopIdle /\ FileIdle /\ ListIdle
SpecNets == InitNets /\ [][NextInput]_vars


NextGroups ==
    \/ \E ok \in BOOLEAN : CreateGroup(ok)
    \/ \E i \in 1..Len(GroupIDs), c \in ContainerIDs, ok \in BOOLEAN :
          AddContainerToGroup(GroupIDs[i], c, ok)
    \/ \E i \in 1..Len(GroupIDs), c \in ContainerIDs, ok \in BOOLEAN :
          RemoveContainerFromGroup(GroupIDs[i], c, ok)
    \/ \E a, b \in ContainerIDs, ok \in BOOLEAN : ReplaceContainerID(a, b, ok)
    \/ \E c \in ContainerIDs, ok \in BOOLEAN :
          RemoveContainerFromAllGroups(c, ok)
    \/ \E i \in 1..Len(GroupIDs), ok \in BOOLEAN : DeleteGroup(GroupIDs[i], ok)
    \/ \E i \in 1..Len(GroupIDs), m \in MemberLists(MaxInitMembers),
          ok \in BOOLEAN : UpdateGroup(GroupIDs[i], m, ok)

InitGroups ==
    AppInit /\ StreamInit /\ StoreInit /\ BatchIdle /\ RecIdle /\ InputInit
    /\ LoopIdle /\ FileIdle /\ ListIdle
SpecGroups == InitGroups /\ [][NextGroups]_vars


NextLists ==
    \/ StartFilter
    \/ \E text \in FilterTexts : TypeFilter(text)
    \/ AcceptFilter
    \/ CancelFilter
    \/ CursorDown
    \/ CursorUp
    \/ ActionKey

InitLists ==
    AppInit /\ StreamInit /\ StoreEmpty /\ BatchIdle /\ RecIdle /\ InputInit
    /\ LoopIdle /\ FileIdle /\ ListInit
SpecLists == InitLists /\ [][NextLists]_vars

=========================================================================
